---------------------------- MODULE Spec2Model ----------------------------
(***************************************************************************)
(* Request-gating security and resilience layer of the attendance bot:     *)
(* RateLimiter (middleware/rateLimiter.js), SecurityManager                *)
(* (middleware/securityManager.js), ErrorHandler (middleware/              *)
(* errorHandler.js), InputValidator (middleware/inputValidator.js) and the *)
(* message handler of AttendanceBot (index.js).                            *)
(*                                                                         *)
(* Time is Date.now() in milliseconds.  Every synchronous stretch of a     *)
(* handler runs at one instant `now`; the clock moves between handlers and *)
(* at the handlers' await points.                                          *)
(***************************************************************************)
EXTENDS Integers, Sequences, FiniteSets, TLC

VARIABLES
    now,            \* Date.now()
    store,          \* RateLimiter.store: key -> request timestamps
    cleanupDue,     \* next firing time of RateLimiter.cleanup's interval
    rlAdmitted,     \* history: per key, the instants of the requests admitted since the last
                    \* clear that are less than one window old
    rlLast,         \* history: the RateLimiter call made at this instant, if it was the last step, and what it returned
    circuitBreakers,\* ErrorHandler.circuitBreakers: category -> circuit
    tasks,          \* the handleError calls in flight: where each stands
    ehLast,         \* history: the ErrorHandler call made at this instant, if it was the last step, and what it returned
    activeSessions, \* SecurityManager.activeSessions: session id -> session
    nextSession,    \* the session id the next crypto.randomUUID() of createSession returns
    blockedUsers,   \* SecurityManager.blockedUsers: user id -> block record
    auditLog,       \* SecurityManager.auditLog
    blockCalls,     \* history: per user, the last blockUser call, until the user is unblocked
    blockCallCount, \* history: per user, how many blockUser calls were made
    smLast,         \* history: the SecurityManager call made at this instant, if it was the last step, and what it returned
    lastIndex,      \* InputValidator.forbiddenPatterns: the lastIndex of each (global) pattern
    botLast,        \* history: the message handled at this instant, if it was the last step, and what became of it
    checks          \* the concurrent isRateLimited tasks: pending, or what each returned

rlVars == <<store, cleanupDue, rlAdmitted, rlLast>>

ehVars == <<circuitBreakers, tasks, ehLast>>

smVars == <<activeSessions, nextSession, blockedUsers, auditLog, blockCalls, blockCallCount,
           smLast>>

botVars == <<lastIndex, botLast>>

ccVars == <<checks>>

vars == <<now, store, cleanupDue, rlAdmitted, rlLast, circuitBreakers, tasks, ehLast,
          activeSessions, nextSession, blockedUsers, auditLog, blockCalls, blockCallCount,
          smLast,
          lastIndex, botLast, checks>>

-----------------------------------------------------------------------------
(* Generic helpers *)

Min(S) == CHOOSE x \in S : \A y \in S : x <= y

Max2(a, b) == IF a >= b THEN a ELSE b

Range(s) == {s[i] : i \in 1..Len(s)}

\* Math.ceil(a / b) for b > 0
CeilDiv(a, b) == IF a >= 0 THEN (a + b - 1) \div b ELSE -((-a) \div b)

-----------------------------------------------------------------------------
(* RateLimiter *)

Users == {"u1", "u2"}

\* the per-class request budgets; the constructor takes them as options
\* (10, 20, 5 and 20 in index.js), the model runs with small budgets
commandsPerMinute == 2
messagesPerMinute == 3
registrationsPerHour == 1
subjectsPerHour == 2

Types == {"commands", "messages", "registrations", "subjects"}

limits ==
    [t \in Types |->
        CASE t = "commands" -> commandsPerMinute
          [] t = "messages" -> messagesPerMinute
          [] t = "registrations" -> registrationsPerHour
          [] t = "subjects" -> subjectsPerHour]

\* seconds
windows ==
    [t \in Types |->
        CASE t = "commands" -> 60
          [] t = "messages" -> 60
          [] t = "registrations" -> 3600
          [] t = "subjects" -> 3600]

\* const window = this.windows[type] * 1000
WindowMs(type) == windows[type] * 1000

Keys == Users \X Types

\* the filter with the boundary instant kept: now - timestamp <= window
FilterWindow_inclusive(requests, t, window) ==
    SelectSeq(requests, LAMBDA timestamp : t - timestamp <= window)

\* requests.filter(timestamp => now - timestamp < window)
FilterWindow(requests, t, window) ==
    SelectSeq(requests, LAMBDA timestamp : t - timestamp < window)

\* the comparison off by one: requests.length > limit
LimitExceeded_strict(requests, limit) == Len(requests) > limit

\* the comparison of isRateLimited: requests.length >= limit
LimitExceeded(requests, limit) == Len(requests) >= limit

\* the request recorded although it is limited
AfterLimited_recorded(stored, requests, t) == Append(requests, t)

\* the limited branch returns true before this.store.set(key, requests):
\* the stored list stays as it was
AfterLimited(stored, requests, t) == stored

NoCall == [op |-> "none", userId |-> "", type |-> "", limited |-> FALSE, value |-> 0]

\* isRateLimited(userId, type): an unknown type (or an empty userId) is
\* never limited and never recorded
isRateLimited(userId, type) ==
    /\ IF type \notin Types
         THEN /\ rlLast' = [op |-> "isRateLimited", userId |-> userId, type |-> type,
                            limited |-> FALSE, value |-> 0]
              /\ UNCHANGED <<store, rlAdmitted>>
         ELSE LET key == <<userId, type>>
                  requests == FilterWindow(store[key], now, WindowMs(type))
              IN  IF LimitExceeded(requests, limits[type])
                    THEN /\ rlLast' = [op |-> "isRateLimited", userId |-> userId,
                                       type |-> type, limited |-> TRUE,
                                       value |-> Len(requests)]
                         /\ store' = [store EXCEPT
                                         ![key] = AfterLimited(@, requests, now)]
                         /\ UNCHANGED rlAdmitted
                    ELSE /\ store' = [store EXCEPT ![key] = Append(requests, now)]
                         /\ rlAdmitted' = [rlAdmitted EXCEPT ![key] = Append(@, now)]
                         /\ rlLast' = [op |-> "isRateLimited", userId |-> userId,
                                       type |-> type, limited |-> FALSE,
                                       value |-> Len(requests)]
    /\ UNCHANGED <<now, cleanupDue>>

\* getRemainingRequests(userId, type) as a value
RemainingRequests(userId, type, t) ==
    Max2(0, limits[type] - Len(FilterWindow(store[<<userId, type>>], t, WindowMs(type))))

getRemainingRequests(userId, type) ==
    /\ rlLast' = [op |-> "getRemainingRequests", userId |-> userId, type |-> type,
                  limited |-> FALSE,
                  value |-> RemainingRequests(userId, type, now)]
    /\ UNCHANGED <<now, store, cleanupDue, rlAdmitted>>

\* getResetTime(userId, type) as a value: seconds until the oldest stored
\* request leaves the window
ResetTime(userId, type, t) ==
    LET requests == store[<<userId, type>>]
    IN  IF Len(requests) = 0 THEN 0
        ELSE Max2(0, CeilDiv(Min(Range(requests)) + WindowMs(type) - t, 1000))

\* clearRateLimit(userId, type): the admin reset of one key
clearRateLimit(userId, type) ==
    /\ store' = [store EXCEPT ![<<userId, type>>] = <<>>]
    /\ rlAdmitted' = [rlAdmitted EXCEPT ![<<userId, type>>] = <<>>]
    /\ rlLast' = [op |-> "clearRateLimit", userId |-> userId, type |-> type,
                  limited |-> FALSE, value |-> 0]
    /\ UNCHANGED <<now, cleanupDue>>

CleanupInterval == 60000

\* the setInterval callback of cleanup(): prune every key, dropping the
\* keys that become empty
cleanup ==
    /\ now >= cleanupDue
    /\ cleanupDue' = cleanupDue + CleanupInterval
    /\ store' = [k \in Keys |-> FilterWindow(store[k], now, WindowMs(k[2]))]
    /\ rlLast' = NoCall
    /\ UNCHANGED <<now, rlAdmitted>>

\* detectSuspiciousActivity(userId) at t, as a value; the patterns are the
\* classes with no request left (severity "" stands for no severity field)
SuspiciousActivity(userId, t) ==
    LET patterns == {type \in Types : RemainingRequests(userId, type, t) = 0}
        suspiciousCount == Cardinality(patterns)
    IN  IF suspiciousCount >= 2
          THEN [isSuspicious |-> TRUE, patterns |-> patterns,
                severity |-> IF suspiciousCount >= 3 THEN "high" ELSE "medium"]
          ELSE [isSuspicious |-> FALSE, patterns |-> patterns, severity |-> ""]

\* detectSuspiciousActivity(userId); the history keeps isSuspicious and the
\* number of patterns
detectSuspiciousActivity(userId) ==
    /\ rlLast' = [op |-> "detectSuspiciousActivity", userId |-> userId, type |-> "",
                  limited |-> SuspiciousActivity(userId, now).isSuspicious,
                  value |-> Cardinality(SuspiciousActivity(userId, now).patterns)]
    /\ UNCHANGED <<now, store, cleanupDue, rlAdmitted>>

-----------------------------------------------------------------------------
(* ErrorHandler *)

circuitBreakerThreshold == 5
circuitBreakerTimeout == 60000
retryAttempts == 3
retryDelay == 1000

LOW == 1
MEDIUM == 2
HIGH == 3
CRITICAL == 4

\* config.errorCategories, in the order Object.entries walks them
errorCategories ==
    << <<"NETWORK", {"ECONNREFUSED", "ENOTFOUND", "TIMEOUT"}>>,
       <<"DATABASE", {"MongoError", "ValidationError", "CastError"}>>,
       <<"WHATSAPP", {"DISCONNECTED", "AUTHENTICATION_FAILURE", "RATE_LIMITED"}>>,
       <<"VALIDATION", {"INVALID_INPUT", "MALICIOUS_PATTERN"}>>,
       <<"SYSTEM", {"ENOMEM", "ENOSPC", "EMFILE"}>> >>

Categories == {"NETWORK", "DATABASE", "WHATSAPP", "VALIDATION", "SYSTEM", "UNKNOWN"}

\* the lower case letter of an upper case letter; every other character as it is
LowerChar(c) ==
    CASE c = "A" -> "a" [] c = "B" -> "b" [] c = "C" -> "c" [] c = "D" -> "d"
      [] c = "E" -> "e" [] c = "F" -> "f" [] c = "G" -> "g" [] c = "H" -> "h"
      [] c = "I" -> "i" [] c = "J" -> "j" [] c = "K" -> "k" [] c = "L" -> "l"
      [] c = "M" -> "m" [] c = "N" -> "n" [] c = "O" -> "o" [] c = "P" -> "p"
      [] c = "Q" -> "q" [] c = "R" -> "r" [] c = "S" -> "s" [] c = "T" -> "t"
      [] c = "U" -> "u" [] c = "V" -> "v" [] c = "W" -> "w" [] c = "X" -> "x"
      [] c = "Y" -> "y" [] c = "Z" -> "z"
      [] OTHER -> c

\* String.prototype.toLowerCase
RECURSIVE ToLowerCase(_)
ToLowerCase(str) ==
    IF Len(str) = 0 THEN ""
    ELSE LowerChar(SubSeq(str, 1, 1)) \o ToLowerCase(SubSeq(str, 2, Len(str)))

\* (error.message + error.code + error.name).toLowerCase(); an undefined
\* field is the string "undefined"
ErrorString(error) == ToLowerCase(error.message \o error.code \o error.name)

\* String.prototype.includes
Includes(str, pattern) ==
    \E i \in 1..(Len(str) - Len(pattern) + 1) : SubSeq(str, i, i + Len(pattern) - 1) = pattern

RECURSIVE CategoryFrom(_, _)
CategoryFrom(error, i) ==
    IF i > Len(errorCategories) THEN "UNKNOWN"
    ELSE IF \E pattern \in errorCategories[i][2] :
                Includes(ErrorString(error), ToLowerCase(pattern))
         THEN errorCategories[i][1]
         ELSE CategoryFrom(error, i + 1)

categorizeError(error) == CategoryFrom(error, 1)

determinePriority(error) ==
    IF error.name = "SecurityError" \/ Includes(error.message, "injection") THEN CRITICAL
    ELSE IF error.code = "ECONNREFUSED" \/ error.name = "MongoError" THEN HIGH
    ELSE IF error.name = "ValidationError" \/ error.code = "RATE_LIMITED" THEN MEDIUM
    ELSE LOW

nonRecoverableErrors ==
    {"EACCES", "EPERM", "ENOSPC", "ENOMEM", "SyntaxError", "ReferenceError", "TypeError"}

isRecoverable(error) ==
    ~ \E pattern \in nonRecoverableErrors : error.code = pattern \/ error.name = pattern

analyzeError(error, retryCount) ==
    [message |-> error.message, code |-> error.code, name |-> error.name,
     category |-> categorizeError(error),
     priority |-> determinePriority(error),
     isRecoverable |-> isRecoverable(error),
     retryCount |-> retryCount]

\* new Error("ECONNREFUSED")
NetworkError == [message |-> "ECONNREFUSED", code |-> "undefined", name |-> "Error"]

\* new TypeError("fetch failed: TIMEOUT")
FetchError ==
    [message |-> "fetch failed: TIMEOUT", code |-> "undefined", name |-> "TypeError"]

\* new Error("Test error")
TestError == [message |-> "Test error", code |-> "undefined", name |-> "Error"]

EHErrors == {NetworkError, FetchError, TestError}

\* an error whose message and code hold internals, code 'EACCES'
SecretError ==
    [message |-> "ENOTFOUND password: secret123", code |-> "EACCES", name |-> "Error"]

\* new Error("MongoError: connection failed")
DbError ==
    [message |-> "MongoError: connection failed", code |-> "undefined", name |-> "Error"]

\* the errors the message handler's catch block is run with
ReplyErrors == {NetworkError, FetchError, SecretError, DbError}

\* new Error("ValidationError: invalid input")
ValidationError ==
    [message |-> "ValidationError: invalid input", code |-> "undefined", name |-> "Error"]

\* a keyword in lower case
TimeoutError == [message |-> "connection timeout", code |-> "undefined", name |-> "Error"]

\* keywords of two categories, the one of the later category first
MemoryError == [message |-> "ENOMEM after TIMEOUT", code |-> "undefined", name |-> "Error"]

\* a keyword in the code
SpaceError == [message |-> "write failed", code |-> "ENOSPC", name |-> "Error"]

\* a keyword in the name
CastError == [message |-> "bad value", code |-> "undefined", name |-> "CastError"]

DisconnectedError == [message |-> "DISCONNECTED", code |-> "undefined", name |-> "Error"]

InputError == [message |-> "INVALID_INPUT", code |-> "undefined", name |-> "Error"]

\* no keyword in any field: the code ends as a keyword begins, the name
\* begins as it ends
CodeError == [message |-> "bad request", code |-> "VALIDATION", name |-> "Error"]

\* the errors that are categorized
CategorizeErrors ==
    {NetworkError, DbError, ValidationError, TimeoutError, MemoryError, SpaceError,
     CastError, DisconnectedError, InputError, TestError, CodeError}

\* analyzeError of each of these errors (retryCount 0)
Analyzed ==
    [error \in EHErrors \cup ReplyErrors \cup CategorizeErrors |-> analyzeError(error, 0)]

\* errorResult.errorInfo || {}: no field is defined
NoErrorInfo ==
    [message |-> "", code |-> "undefined", name |-> "undefined", category |-> "undefined",
     priority |-> 0, isRecoverable |-> FALSE, retryCount |-> 0]

\* the text made of the error's own fields
getUserFriendlyMessage_raw(errorInfo) == errorInfo.name

\* getUserFriendlyMessage(errorInfo): messages[errorInfo.category] || the default
getUserFriendlyMessage(errorInfo) ==
    CASE errorInfo.category = "NETWORK" ->
            "Network connection issue. Please try again in a moment."
      [] errorInfo.category = "DATABASE" ->
            "Data service temporarily unavailable. Please try again later."
      [] errorInfo.category = "WHATSAPP" ->
            "WhatsApp service issue. Your request will be processed shortly."
      [] errorInfo.category = "VALIDATION" ->
            "Invalid input format. Please check your command and try again."
      [] errorInfo.category = "SYSTEM" ->
            "System maintenance in progress. Please try again later."
      [] OTHER -> "Temporary service issue. Please try again later."

\* the text the catch block of the message handler replies with, given what
\* handleError returned
UserMessage(errorResult) ==
    IF errorResult.success
      THEN "Processing your request, please wait..."
      ELSE getUserFriendlyMessage(errorResult.errorInfo)

RECURSIVE Pow2(_)
Pow2(n) == IF n = 0 THEN 1 ELSE 2 * Pow2(n - 1)

\* What attemptRecovery does for an error: whether it awaits a sleep first,
\* for how long, and what it then returns
Recovery(errorInfo) ==
    IF ~errorInfo.isRecoverable
      THEN [sleeps |-> FALSE, success |-> FALSE, strategy |-> "none", delay |-> 0]
    ELSE CASE errorInfo.category = "NETWORK" ->
                [sleeps |-> TRUE, success |-> TRUE, strategy |-> "retry",
                 delay |-> retryDelay * Pow2(errorInfo.retryCount)]
           [] errorInfo.category = "DATABASE" ->
                IF errorInfo.code = "ECONNREFUSED"
                  THEN [sleeps |-> FALSE, success |-> TRUE, strategy |-> "reconnect", delay |-> 0]
                ELSE IF errorInfo.name = "ValidationError"
                  THEN [sleeps |-> FALSE, success |-> TRUE, strategy |-> "sanitize", delay |-> 0]
                ELSE [sleeps |-> FALSE, success |-> FALSE, strategy |-> "none", delay |-> 0]
           [] errorInfo.category = "WHATSAPP" ->
                IF Includes(errorInfo.message, "DISCONNECTED")
                  THEN [sleeps |-> FALSE, success |-> TRUE, strategy |-> "reconnect", delay |-> 0]
                ELSE IF Includes(errorInfo.message, "RATE_LIMITED")
                  THEN [sleeps |-> FALSE, success |-> TRUE, strategy |-> "backoff", delay |-> 60000]
                ELSE [sleeps |-> FALSE, success |-> FALSE, strategy |-> "none", delay |-> 0]
           [] errorInfo.category = "VALIDATION" ->
                [sleeps |-> FALSE, success |-> TRUE, strategy |-> "sanitize", delay |-> 0]
           [] OTHER ->
                IF errorInfo.retryCount < retryAttempts
                  THEN [sleeps |-> TRUE, success |-> TRUE, strategy |-> "retry",
                        delay |-> retryDelay * (errorInfo.retryCount + 1)]
                ELSE [sleeps |-> FALSE, success |-> FALSE, strategy |-> "none", delay |-> 0]

\* a circuit; its lastFailure field is written and never read, and is left out
NewCircuit == [failures |-> 0, state |-> "CLOSED", nextAttempt |-> 0]

\* this.circuitBreakers.get(circuitKey) || { ... }
CircuitOf(cb, category) == IF category \in DOMAIN cb THEN cb[category] ELSE NewCircuit

SetCircuit(cb, category, circuit) ==
    [c \in DOMAIN cb \cup {category} |-> IF c = category THEN circuit ELSE cb[c]]

\* the transition test made with the deadline ignored
ShouldHalfOpen_early(circuit, t) == circuit.state = "OPEN"

\* circuit.state === 'OPEN' && now >= circuit.nextAttempt
ShouldHalfOpen(circuit, t) == circuit.state = "OPEN" /\ t >= circuit.nextAttempt

\* the breaker map after checkCircuitBreaker(category) at t
CheckedBreakers(cb, category, t) ==
    LET circuit == CircuitOf(cb, category)
    IN  SetCircuit(cb, category,
            IF ShouldHalfOpen(circuit, t) THEN [circuit EXCEPT !.state = "HALF_OPEN"]
            ELSE circuit)

\* what checkCircuitBreaker(category) returns, from the checked map
CircuitState(cb, category) ==
    [isOpen |-> cb[category].state = "OPEN",
     state |-> cb[category].state,
     failures |-> cb[category].failures,
     nextAttempt |-> cb[category].nextAttempt]

\* the threshold test off by one
ThresholdReached_strict(failures) == failures > circuitBreakerThreshold

\* circuit.failures >= this.config.circuitBreakerThreshold
ThresholdReached(failures) == failures >= circuitBreakerThreshold

\* a success closes the circuit whatever its state
ClosesOnSuccess_always(circuit) == TRUE

\* on a success: circuit.state === 'HALF_OPEN'
ClosesOnSuccess(circuit) == circuit.state = "HALF_OPEN"

\* the breaker map after updateCircuitBreaker(category, isFailure) at t
UpdatedBreakers(cb, category, isFailure, t) ==
    LET circuit == CircuitOf(cb, category)
        failed == [circuit EXCEPT !.failures = @ + 1]
    IN  SetCircuit(cb, category,
            IF isFailure
              THEN IF ThresholdReached(failed.failures)
                     THEN [failed EXCEPT !.state = "OPEN",
                                         !.nextAttempt = t + circuitBreakerTimeout]
                     ELSE failed
            ELSE IF ClosesOnSuccess(circuit)
              THEN [circuit EXCEPT !.state = "CLOSED", !.failures = 0]
            ELSE circuit)

\* the estimate negated
WaitTime_negated(circuitState, t) == t - circuitState.nextAttempt

\* handleCircuitBreakerOpen: circuitState.nextAttempt - Date.now()
WaitTime(circuitState, t) == circuitState.nextAttempt - t

NoResult ==
    [op |-> "none", step |-> "none", category |-> "", circuitBreakerOpen |-> FALSE,
     waitTime |-> 0, attempted |-> FALSE, success |-> FALSE, strategy |-> "none",
     delay |-> 0, isFailure |-> FALSE, errorInfo |-> NoErrorInfo,
     circuitState |-> [isOpen |-> FALSE, state |-> "", failures |-> 0, nextAttempt |-> 0]]

IdleTask ==
    [pc |-> "idle", category |-> "", wakeAt |-> 0, errorInfo |-> NoErrorInfo,
     recovery |-> [sleeps |-> FALSE, success |-> FALSE, strategy |-> "none", delay |-> 0]]

\* how far the model lets a failure counter run: one past the threshold
MaxFailures == circuitBreakerThreshold + 1

\* the handleError calls that can be in flight together
Tasks == {"t1", "t2"}

CanRecord(category, isFailure) ==
    isFailure => CircuitOf(circuitBreakers, category).failures < MaxFailures

\* checkCircuitBreaker(category), called on its own
checkCircuitBreaker(category) ==
    /\ circuitBreakers' = CheckedBreakers(circuitBreakers, category, now)
    /\ ehLast' = [NoResult EXCEPT !.op = "checkCircuitBreaker", !.step = "call",
                                   !.category = category,
                                   !.circuitState = CircuitState(circuitBreakers', category)]
    /\ UNCHANGED <<now, tasks>>

\* updateCircuitBreaker(category, isFailure), called on its own
updateCircuitBreaker(category, isFailure) ==
    /\ CanRecord(category, isFailure)
    /\ circuitBreakers' = UpdatedBreakers(circuitBreakers, category, isFailure, now)
    /\ ehLast' = [NoResult EXCEPT !.op = "updateCircuitBreaker", !.step = "call",
                                   !.category = category, !.isFailure = isFailure]
    /\ UNCHANGED <<now, tasks>>

\* handleError(error, {retryCount}) up to its return or to the sleep of its
\* recovery strategy: analyzeError, checkCircuitBreaker, then either the
\* circuit-open result, or a recovery that returns at once followed by
\* updateCircuitBreaker, or the start of a recovery that sleeps
handleError(task, error, retryCount) ==
    \E errorInfo \in {[Analyzed[error] EXCEPT !.retryCount = retryCount]} :
    \E checked \in {CheckedBreakers(circuitBreakers, errorInfo.category, now)} :
    \E circuitState \in {CircuitState(checked, errorInfo.category)} :
    \E recovery \in {Recovery(errorInfo)} :
        /\ tasks[task].pc = "idle"
        /\ IF circuitState.isOpen
             THEN /\ circuitBreakers' = checked
                  /\ tasks' = tasks
                  /\ ehLast' = [NoResult EXCEPT
                                    !.op = "handleError", !.step = "call",
                                    !.category = errorInfo.category,
                                    !.circuitBreakerOpen = TRUE,
                                    !.waitTime = WaitTime(circuitState, now),
                                    !.strategy = "wait",
                                    !.circuitState = circuitState]
             ELSE IF recovery.sleeps
               THEN /\ circuitBreakers' = checked
                    /\ tasks' = [tasks EXCEPT ![task] =
                                    [pc |-> "sleeping", category |-> errorInfo.category,
                                     wakeAt |-> now + recovery.delay,
                                     errorInfo |-> errorInfo,
                                     recovery |-> recovery]]
                    /\ ehLast' = [NoResult EXCEPT
                                      !.op = "handleError", !.step = "await",
                                      !.category = errorInfo.category,
                                      !.attempted = TRUE,
                                      !.errorInfo = errorInfo,
                                      !.circuitState = circuitState]
               ELSE /\ CanRecord(errorInfo.category, ~recovery.success)
                    /\ circuitBreakers' =
                          UpdatedBreakers(checked, errorInfo.category, ~recovery.success, now)
                    /\ tasks' = tasks
                    /\ ehLast' = [NoResult EXCEPT
                                      !.op = "handleError", !.step = "call",
                                      !.category = errorInfo.category,
                                      !.attempted = TRUE,
                                      !.success = recovery.success,
                                      !.strategy = recovery.strategy,
                                      !.delay = recovery.delay,
                                      !.isFailure = ~recovery.success,
                                      !.errorInfo = errorInfo,
                                      !.circuitState = circuitState]
        /\ UNCHANGED now

\* handleError after the sleep of its recovery strategy: the recovery
\* returns, updateCircuitBreaker records its outcome, handleError returns
\* (the circuitState it returns is the one read before the sleep; the
\* history keeps it only for the calls that return at once)
handleErrorResume(task) ==
    LET t == tasks[task]
    IN  /\ t.pc = "sleeping"
        /\ now >= t.wakeAt
        /\ CanRecord(t.category, ~t.recovery.success)
        /\ circuitBreakers' =
              UpdatedBreakers(circuitBreakers, t.category, ~t.recovery.success, now)
        /\ tasks' = [tasks EXCEPT ![task] = IdleTask]
        /\ ehLast' = [NoResult EXCEPT
                          !.op = "handleError", !.step = "resume",
                          !.category = t.category, !.attempted = TRUE,
                          !.success = t.recovery.success,
                          !.strategy = t.recovery.strategy,
                          !.delay = t.recovery.delay,
                          !.isFailure = ~t.recovery.success,
                          !.errorInfo = t.errorInfo]
        /\ UNCHANGED now

-----------------------------------------------------------------------------
(* SecurityManager (middleware/securityManager.js) *)

\* this.maxAuditLogSize, run at a small size as the size-limit test does
maxAuditLogSize == 2

sessionTimeout == 24 * 60 * 60 * 1000

\* securityConfig.blockDuration
blockDuration == 30 * 60 * 1000

threatLevels == [LOW |-> LOW, MEDIUM |-> MEDIUM, HIGH |-> HIGH, CRITICAL |-> CRITICAL]

\* every action taken as of LOW severity
getActionSeverity_low(action) == threatLevels.LOW

\* severityMap[action] || this.threatLevels.LOW
getActionSeverity(action) ==
    CASE action \in {"SESSION_CREATED", "SESSION_EXPIRED"} -> threatLevels.LOW
      [] action \in {"INVALID_SESSION_ACCESS", "RATE_LIMIT_EXCEEDED"} -> threatLevels.MEDIUM
      [] action \in {"SESSION_HIJACK_ATTEMPT", "MALICIOUS_INPUT_DETECTED", "USER_BLOCKED",
                     "BRUTE_FORCE_DETECTED"} -> threatLevels.HIGH
      [] action \in {"SQL_INJECTION_ATTEMPT", "COMMAND_INJECTION_ATTEMPT"} ->
            threatLevels.CRITICAL
      [] OTHER -> threatLevels.LOW

\* the event logSecurityEvent builds (details left out)
SecurityEvent(t, userId, action) ==
    [timestamp |-> t, userId |-> userId, action |-> action,
     severity |-> getActionSeverity(action), id |-> "uuid"]

\* the object createSession pushes: it has neither severity nor id
\* (severity 0 stands for undefined, which is below every threat level)
SessionCreatedEvent(t, userId) ==
    [timestamp |-> t, userId |-> userId, action |-> "SESSION_CREATED",
     severity |-> 0, id |-> "undefined"]

\* the trim left out
Trim_none(log) == log

\* if (auditLog.length > maxAuditLogSize) auditLog = auditLog.slice(-maxAuditLogSize)
Trim(log) ==
    IF Len(log) > maxAuditLogSize
      THEN SubSeq(log, Len(log) - maxAuditLogSize + 1, Len(log))
      ELSE log

\* the audit log after logSecurityEvent(userId, action) at t
Logged(log, t, userId, action) == Trim(Append(log, SecurityEvent(t, userId, action)))

NoSession ==
    [userId |-> "", createdAt |-> 0, lastActivity |-> 0, isActive |-> FALSE, threatLevel |-> 0]

\* session: the session validateSession found, as it was before the call
NoSMCall ==
    [op |-> "none", userId |-> "", sessionId |-> 0, isValid |-> FALSE, reason |-> "",
     session |-> NoSession, isBlocked |-> FALSE, remainingTime |-> 0, level |-> 0]

\* how many sessions are ever created
MaxSessions == 1

SessionIds == 1..MaxSessions

\* logSecurityEvent(userId, action), called on its own
logSecurityEvent(userId, action) ==
    /\ auditLog' = Logged(auditLog, now, userId, action)
    /\ smLast' = [NoSMCall EXCEPT !.op = "logSecurityEvent", !.userId = userId,
                                   !.reason = action]
    /\ UNCHANGED <<now, activeSessions, nextSession, blockedUsers, blockCalls, blockCallCount>>

\* the id returned again
NextSessionId_repeated(sessionId) == sessionId

\* crypto.randomUUID(): an id never returned before; the ids are numbered in
\* the order they are returned
NextSessionId(sessionId) == sessionId + 1

\* createSession(userId)
createSession(userId) ==
    /\ activeSessions' = (nextSession :> [userId |-> userId, createdAt |-> now,
                                          lastActivity |-> now, isActive |-> TRUE,
                                          threatLevel |-> threatLevels.LOW])
                            @@ activeSessions
    /\ auditLog' = Append(auditLog, SessionCreatedEvent(now, userId))
    /\ nextSession' = NextSessionId(nextSession)
    /\ smLast' = [NoSMCall EXCEPT !.op = "createSession", !.userId = userId,
                                   !.sessionId = nextSession]
    /\ UNCHANGED <<now, blockedUsers, blockCalls, blockCallCount>>

\* the session kept in the registry
Without_kept(map, key) == map

\* this.activeSessions.delete(key)
Without(map, key) == [k \in DOMAIN map \ {key} |-> map[k]]

\* the `if (session)` guard left out
Expired_unguarded(sessions, log, sessionId, t) ==
    [sessions |-> Without(sessions, sessionId),
     log |-> Logged(log, t, IF sessionId \in DOMAIN sessions
                              THEN sessions[sessionId].userId ELSE "",
                    "SESSION_EXPIRED")]

\* the sessions and the audit log after expireSession(sessionId, reason) at t
Expired(sessions, log, sessionId, t) ==
    IF sessionId \in DOMAIN sessions
      THEN [sessions |-> Without(sessions, sessionId),
            log |-> Logged(log, t, sessions[sessionId].userId, "SESSION_EXPIRED")]
      ELSE [sessions |-> sessions, log |-> log]

\* the timeout measured from the last activity
TimedOut_idle(session, t) == t - session.lastActivity > sessionTimeout

\* now - session.createdAt > this.sessionTimeout
TimedOut(session, t) == t - session.createdAt > sessionTimeout

\* validateSession(sessionId, userId)
validateSession(sessionId, userId) ==
    LET result(isValid, reason) ==
            [NoSMCall EXCEPT !.op = "validateSession", !.userId = userId,
                             !.sessionId = sessionId, !.isValid = isValid,
                             !.reason = reason,
                             !.session = IF sessionId \in DOMAIN activeSessions
                                           THEN activeSessions[sessionId] ELSE NoSession]
    IN  /\ IF sessionId \notin DOMAIN activeSessions
             THEN /\ auditLog' = Logged(auditLog, now, userId, "INVALID_SESSION_ACCESS")
                  /\ smLast' = result(FALSE, "Session not found")
                  /\ UNCHANGED activeSessions
           ELSE IF activeSessions[sessionId].userId # userId
             THEN /\ auditLog' = Logged(auditLog, now, userId, "SESSION_HIJACK_ATTEMPT")
                  /\ smLast' = result(FALSE, "Session mismatch")
                  /\ UNCHANGED activeSessions
           ELSE IF ~activeSessions[sessionId].isActive
             THEN /\ auditLog' = Logged(auditLog, now, userId, "INACTIVE_SESSION_ACCESS")
                  /\ smLast' = result(FALSE, "Session inactive")
                  /\ UNCHANGED activeSessions
           ELSE IF TimedOut(activeSessions[sessionId], now)
             THEN /\ activeSessions' = Expired(activeSessions, auditLog, sessionId, now).sessions
                  /\ auditLog' = Expired(activeSessions, auditLog, sessionId, now).log
                  /\ smLast' = result(FALSE, "Session expired")
           ELSE /\ activeSessions' = [activeSessions EXCEPT ![sessionId].lastActivity = now]
                /\ smLast' = result(TRUE, "")
                /\ UNCHANGED auditLog
        /\ UNCHANGED <<now, nextSession, blockedUsers, blockCalls, blockCallCount>>

\* expireSession(sessionId), reason 'manual'
expireSession(sessionId) ==
    /\ activeSessions' = Expired(activeSessions, auditLog, sessionId, now).sessions
    /\ auditLog' = Expired(activeSessions, auditLog, sessionId, now).log
    /\ smLast' = [NoSMCall EXCEPT !.op = "expireSession", !.sessionId = sessionId,
                                   !.session = IF sessionId \in DOMAIN activeSessions
                                                 THEN activeSessions[sessionId]
                                                 ELSE NoSession]
    /\ UNCHANGED <<now, nextSession, blockedUsers, blockCalls, blockCallCount>>

\* the sessions and the audit log after cleanupExpiredSessions has visited
\* the sessions from id i on, in the order of their creation
RECURSIVE Swept(_, _, _, _)
Swept(sessions, log, i, t) ==
    IF i > MaxSessions THEN [sessions |-> sessions, log |-> log]
    ELSE IF i \in DOMAIN sessions /\ TimedOut(sessions[i], t)
      THEN Swept(Expired(sessions, log, i, t).sessions,
                 Expired(sessions, log, i, t).log, i + 1, t)
    ELSE Swept(sessions, log, i + 1, t)

\* cleanupExpiredSessions, the task of the 10 minute interval
cleanupExpiredSessions ==
    /\ activeSessions' = Swept(activeSessions, auditLog, 1, now).sessions
    /\ auditLog' = Swept(activeSessions, auditLog, 1, now).log
    /\ smLast' = [NoSMCall EXCEPT !.op = "cleanupExpiredSessions"]
    /\ UNCHANGED <<now, nextSession, blockedUsers, blockCalls, blockCallCount>>

\* the blocked users and the audit log after unblockUser(userId, reason) at t
Unblocked(blocked, log, userId, t) ==
    IF userId \in DOMAIN blocked
      THEN [blocked |-> Without(blocked, userId),
            log |-> Logged(log, t, userId, "USER_UNBLOCKED")]
      ELSE [blocked |-> blocked, log |-> log]

NoBlockCall == [at |-> 0, duration |-> 0, reason |-> ""]

\* the block taken as over from blockedUntil on
BlockOver_inclusive(blockInfo, t) == t >= blockInfo.blockedUntil

\* now > blockInfo.blockedUntil
BlockOver(blockInfo, t) == t > blockInfo.blockedUntil

\* isUserBlocked(userId)
isUserBlocked(userId) ==
    LET result == [NoSMCall EXCEPT !.op = "isUserBlocked", !.userId = userId]
    IN  /\ IF userId \notin DOMAIN blockedUsers
             THEN /\ smLast' = result
                  /\ UNCHANGED <<blockedUsers, auditLog, blockCalls>>
           ELSE IF BlockOver(blockedUsers[userId], now)
             THEN /\ blockedUsers' = Unblocked(blockedUsers, auditLog, userId, now).blocked
                  /\ auditLog' = Unblocked(blockedUsers, auditLog, userId, now).log
                  /\ blockCalls' = [blockCalls EXCEPT ![userId] = NoBlockCall]
                  /\ smLast' = [result EXCEPT !.reason = "timeout"]
           ELSE /\ smLast' = [result EXCEPT
                                 !.isBlocked = TRUE,
                                 !.reason = blockedUsers[userId].reason,
                                 !.remainingTime = blockedUsers[userId].blockedUntil - now]
                /\ UNCHANGED <<blockedUsers, auditLog, blockCalls>>
        /\ UNCHANGED <<now, activeSessions, nextSession, blockCallCount>>

\* how far the model lets a block count run
MaxBlockCount == 2

\* duration || this.securityConfig.blockDuration (0 stands for null too)
BlockDurationOf(duration) == IF duration # 0 THEN duration ELSE blockDuration

\* the block record blockUser(userId, reason, duration) stores at t
BlockInfo(blocked, userId, reason, duration, t) ==
    [reason |-> reason, blockedAt |-> t,
     blockedUntil |-> t + BlockDurationOf(duration),
     blockCount |-> (IF userId \in DOMAIN blocked THEN blocked[userId].blockCount ELSE 0) + 1]

\* the blocked users and the audit log after blockUser(userId, reason, duration) at t
Blocked(blocked, log, userId, reason, duration, t) ==
    [blocked |-> (userId :> BlockInfo(blocked, userId, reason, duration, t)) @@ blocked,
     log |-> Logged(log, t, userId, "USER_BLOCKED")]

\* blockUser(userId, reason, duration)
blockUser(userId, reason, duration) ==
    /\ BlockInfo(blockedUsers, userId, reason, duration, now).blockCount <= MaxBlockCount
    /\ blockedUsers' = Blocked(blockedUsers, auditLog, userId, reason, duration, now).blocked
    /\ auditLog' = Blocked(blockedUsers, auditLog, userId, reason, duration, now).log
    /\ blockCallCount[userId] < MaxBlockCount
    /\ blockCalls' = [blockCalls EXCEPT ![userId] =
                         [at |-> now, duration |-> duration, reason |-> reason]]
    /\ blockCallCount' = [blockCallCount EXCEPT ![userId] = @ + 1]
    /\ smLast' = [NoSMCall EXCEPT !.op = "blockUser", !.userId = userId,
                                   !.reason = reason]
    /\ UNCHANGED <<now, activeSessions, nextSession>>

\* unblockUser(userId), reason 'manual'
unblockUser(userId) ==
    /\ blockedUsers' = Unblocked(blockedUsers, auditLog, userId, now).blocked
    /\ auditLog' = Unblocked(blockedUsers, auditLog, userId, now).log
    /\ blockCalls' = [blockCalls EXCEPT ![userId] = NoBlockCall]
    /\ smLast' = [NoSMCall EXCEPT !.op = "unblockUser", !.userId = userId]
    /\ UNCHANGED <<now, activeSessions, nextSession, blockCallCount>>

\* securityConfig.maxFailedAttempts
maxFailedAttempts == 5

\* getRecentEvents(userId, timeWindow) at t
getRecentEvents(log, userId, timeWindow, t) ==
    SelectSeq(log, LAMBDA event : event.userId = userId /\ event.timestamp >= t - timeWindow)

\* action.includes(word), for the actions that are logged
ActionIncludes(action, word) ==
    CASE word = "SESSION" ->
            action \in {"SESSION_CREATED", "SESSION_EXPIRED", "INVALID_SESSION_ACCESS",
                        "SESSION_HIJACK_ATTEMPT", "INACTIVE_SESSION_ACCESS"}
      [] word = "INVALID" -> action = "INVALID_SESSION_ACCESS"
      [] OTHER -> FALSE

\* analyzeSecurityThreats(userId, action) at t: the findings, in the order
\* they are pushed
analyzeSecurityThreats(log, userId, action, t) ==
    LET recentEvents == getRecentEvents(log, userId, 5 * 60 * 1000, t)
        actionCount == Len(SelectSeq(recentEvents, LAMBDA e : e.action = action))
        failedEvents == SelectSeq(recentEvents,
                            LAMBDA e : ActionIncludes(e.action, "FAILED")
                                         \/ ActionIncludes(e.action, "INVALID"))
        sessionEvents == SelectSeq(recentEvents, LAMBDA e : ActionIncludes(e.action, "SESSION"))
    IN  (IF actionCount > 10
           THEN << [type |-> "RAPID_ACTIONS", severity |-> threatLevels.HIGH] >>
           ELSE << >>)
        \o (IF Len(failedEvents) > maxFailedAttempts
              THEN << [type |-> "MULTIPLE_FAILURES", severity |-> threatLevels.HIGH] >>
              ELSE << >>)
        \o (IF Len(sessionEvents) > 5
              THEN << [type |-> "SESSION_ANOMALY", severity |-> threatLevels.MEDIUM] >>
              ELSE << >>)

\* this.maxAuditLogSize as the constructor sets it
productionAuditLogSize == 10000

\* logSecurityEvent(userId, action) with maxAuditLogSize as the constructor
\* sets it: the log after the call at t
LoggedAtFullSize(log, t, userId, action) ==
    LET pushed == Append(log, SecurityEvent(t, userId, action))
    IN  IF Len(pushed) > productionAuditLogSize
          THEN SubSeq(pushed, Len(pushed) - productionAuditLogSize + 1, Len(pushed))
          ELSE pushed

\* every event taken as of the last hour
InLastHour_always(event, t) == TRUE

\* e.timestamp >= Date.now() - (60 * 60 * 1000)
InLastHour(event, t) == event.timestamp >= t - (60 * 60 * 1000)

\* calculateOverallThreatLevel() at t, as a value
OverallThreatLevel(log, t) ==
    LET recentHighSeverity ==
            SelectSeq(SelectSeq(log, LAMBDA e : InLastHour(e, t)),
                      LAMBDA e : e.severity >= threatLevels.HIGH)
    IN  IF Len(recentHighSeverity) > 10 THEN threatLevels.CRITICAL
        ELSE IF Len(recentHighSeverity) > 5 THEN threatLevels.HIGH
        ELSE IF Len(recentHighSeverity) > 2 THEN threatLevels.MEDIUM
        ELSE threatLevels.LOW

\* calculateOverallThreatLevel()
calculateOverallThreatLevel ==
    /\ smLast' = [NoSMCall EXCEPT !.op = "calculateOverallThreatLevel",
                                   !.level = OverallThreatLevel(auditLog, now)]
    /\ UNCHANGED <<now, activeSessions, nextSession, blockedUsers, auditLog, blockCalls,
                   blockCallCount>>

-----------------------------------------------------------------------------
(* InputValidator (middleware/inputValidator.js).  A message body is given  *)
(* by the facts the validator reads off it: whether it is there, its length *)
(* before and after trim(), whether it starts with '/', where each          *)
(* forbidden pattern matches in it (start and end offsets, in order),       *)
(* whether it holds a character of detectBypassAttempts, whether it         *)
(* survives the UTF-8 round trip of checkEncoding.                          *)

\* maxLengths.message
maxMessageLength == 1000

\* forbiddenPatterns, in the order of the array; all carry the g flag
forbiddenPatterns == <<"script", "sql", "nosql", "command", "path", "extension">>

NoMatches == [p \in Range(forbiddenPatterns) |-> << >>]

\* pattern.test(input) of a global pattern made to start from 0 every time
RegexTest_stateless(matches, from) ==
    IF matches # << >> THEN [found |-> TRUE, lastIndex |-> matches[1][2]]
    ELSE [found |-> FALSE, lastIndex |-> 0]

\* pattern.test(input) of a global pattern whose lastIndex is `from`: the
\* search starts there; a match leaves lastIndex at its end, no match at 0
RegexTest(matches, from) ==
    LET later == {i \in DOMAIN matches : matches[i][1] >= from}
    IN  IF later # {} THEN [found |-> TRUE, lastIndex |-> matches[Min(later)][2]]
        ELSE [found |-> FALSE, lastIndex |-> 0]

\* forbiddenPatterns.find(pattern => pattern.test(sanitized)) from the i-th
\* pattern on: whether one matched, and the lastIndex of every pattern after
RECURSIVE FindForbidden(_, _, _)
FindForbidden(body, li, i) ==
    IF i > Len(forbiddenPatterns) THEN [found |-> FALSE, lastIndex |-> li]
    ELSE LET pattern == forbiddenPatterns[i]
             test == RegexTest(body.matches[pattern], li[pattern])
             tested == [li EXCEPT ![pattern] = test.lastIndex]
         IN  IF test.found THEN [found |-> TRUE, lastIndex |-> tested]
             ELSE FindForbidden(body, tested, i + 1)

\* validateInput(input, 'message'): its verdict and the lastIndex it leaves
validateInput(body, li) ==
    IF ~body.present
      THEN [isValid |-> FALSE, error |-> "Input cannot be null or undefined",
            lastIndex |-> li]
    ELSE IF body.length > maxMessageLength
      THEN [isValid |-> FALSE, error |-> "Input too long", lastIndex |-> li]
    ELSE IF FindForbidden(body, li, 1).found
      THEN [isValid |-> FALSE, error |-> "Input contains forbidden patterns",
            lastIndex |-> FindForbidden(body, li, 1).lastIndex]
    ELSE [isValid |-> TRUE, error |-> "", lastIndex |-> FindForbidden(body, li, 1).lastIndex]

\* validateWhatsAppMessage(message) of a text message (hasMedia false)
validateWhatsAppMessage(message, li) ==
    IF ~message.phoneOk
      THEN [isValid |-> FALSE, error |-> "Invalid sender phone number", lastIndex |-> li]
    ELSE IF ~message.body.present
      THEN [isValid |-> FALSE, error |-> "Missing required field: body", lastIndex |-> li]
    ELSE validateInput(message.body, li)

\* securityCheck(input, {type: 'message'}): validateInput again, then the
\* stateless checks on the untrimmed input
securityCheck(body, li) ==
    LET validation == validateInput(body, li)
        suspiciousLength == body.rawLength > maxMessageLength
    IN  [isSecure |-> /\ validation.isValid
                      /\ ~body.bypass
                      /\ ~suspiciousLength
                      /\ body.encodingOk,
         lastIndex |-> validation.lastIndex]

-----------------------------------------------------------------------------
(* AttendanceBot (index.js): the 'message' handler up to the call of the    *)
(* command or message handler.  All its checks run in one synchronous       *)
(* stretch; the replies it awaits come after them.                          *)

NoMessage == [op |-> "none", userId |-> "", id |-> "", outcome |-> "", replied |-> FALSE]

\* securityManager.blockUser(userId, 'Malicious input detected', 30 * 60 * 1000)
MaliciousBlockDuration == 30 * 60 * 1000

\* client.on('message', ...) for a text message
onMessage(message) ==
    \E structure \in {validateWhatsAppMessage(message, lastIndex)} :
    \E check \in {securityCheck(message.body, structure.lastIndex)} :
    LET userId == message.from
        handled(outcome, replied) ==
            [op |-> "message", userId |-> userId, id |-> message.id,
             outcome |-> outcome, replied |-> replied]
        hasBlock == userId \in DOMAIN blockedUsers
        blockOver == hasBlock /\ BlockOver(blockedUsers[userId], now)
        unblocked == IF blockOver THEN Unblocked(blockedUsers, auditLog, userId, now)
                     ELSE [blocked |-> blockedUsers, log |-> auditLog]
        calls == IF blockOver THEN [blockCalls EXCEPT ![userId] = NoBlockCall]
                 ELSE blockCalls
        asked == [NoSMCall EXCEPT !.op = "isUserBlocked", !.userId = userId]
        messageType == IF message.body.command THEN "commands" ELSE "messages"
        requests == FilterWindow(store[<<userId, messageType>>], now, WindowMs(messageType))
        blocked == Blocked(unblocked.blocked, unblocked.log, userId,
                           "Malicious input detected", MaliciousBlockDuration, now)
    IN  IF message.group
          THEN /\ botLast' = handled("ignored", FALSE)
               /\ UNCHANGED <<rlVars, smVars, lastIndex, now>>
        ELSE IF ~structure.isValid
          THEN /\ lastIndex' = structure.lastIndex
               /\ botLast' = handled("invalid", FALSE)
               /\ UNCHANGED <<rlVars, smVars, now>>
        ELSE IF hasBlock /\ ~blockOver
          THEN /\ lastIndex' = structure.lastIndex
               /\ smLast' = [asked EXCEPT
                                !.isBlocked = TRUE,
                                !.reason = blockedUsers[userId].reason,
                                !.remainingTime = blockedUsers[userId].blockedUntil - now]
               /\ botLast' = handled("blocked", smLast'.remainingTime > 60000)
               /\ UNCHANGED <<rlVars, activeSessions, nextSession, blockedUsers,
                              auditLog, blockCalls, blockCallCount, now>>
        ELSE /\ isRateLimited(userId, messageType)
             /\ UNCHANGED <<activeSessions, nextSession>>
             /\ IF LimitExceeded(requests, limits[messageType])
                  THEN /\ lastIndex' = structure.lastIndex
                       /\ blockedUsers' = unblocked.blocked
                       /\ auditLog' = unblocked.log
                       /\ blockCalls' = calls
                       /\ UNCHANGED blockCallCount
                       /\ smLast' = asked
                       /\ botLast' = handled("limited", TRUE)
                ELSE IF ~check.isSecure
                  THEN /\ lastIndex' = check.lastIndex
                       /\ blockedUsers' = blocked.blocked
                       /\ auditLog' = blocked.log
                       /\ blockCalls' = [calls EXCEPT ![userId] =
                                            [at |-> now, duration |-> MaliciousBlockDuration,
                                             reason |-> "Malicious input detected"]]
                       /\ blockCallCount' = [blockCallCount EXCEPT ![userId] = @ + 1]
                       /\ smLast' = [NoSMCall EXCEPT !.op = "blockUser", !.userId = userId,
                                                      !.reason = "Malicious input detected"]
                       /\ botLast' = handled("malicious", TRUE)
                ELSE /\ lastIndex' = check.lastIndex
                     /\ blockedUsers' = unblocked.blocked
                     /\ auditLog' = unblocked.log
                     /\ blockCalls' = calls
                     /\ UNCHANGED blockCallCount
                     /\ smLast' = asked
                     /\ botLast' = handled("delivered", FALSE)

-----------------------------------------------------------------------------
(* The rate limiter under load: requests of every user and class, the admin *)
(* reset, the periodic cleanup, and the clock.                              *)

\* how many minute windows the clock runs through
MaxWindows == 2

\* the instants the clock visits: each window boundary, 1 ms before and
\* 1 ms after it
RLInstants ==
    {t \in {i * 60000 + j : i \in 0..MaxWindows, j \in {-1, 0, 1}} : t >= 0}

\* the admitted requests of a class that are less than one window old at t
StillInWindow(admitted, t, type) ==
    SelectSeq(admitted, LAMBDA a : a + windows[type] * 1000 > t)

RLTick ==
    /\ \E t \in RLInstants :
          /\ t > now
          /\ now' = t
          /\ rlAdmitted' = [k \in Keys |-> StillInWindow(rlAdmitted[k], t, k[2])]
    /\ rlLast' = NoCall
    /\ UNCHANGED <<store, cleanupDue>>

\* the keys that send requests: two principals, two classes
RLCallers == {<<"u1", "commands">>, <<"u2", "messages">>}

\* new RateLimiter(...)
RLInitState ==
    /\ store = [k \in Keys |-> <<>>]
    /\ cleanupDue = CleanupInterval
    /\ rlAdmitted = [k \in Keys |-> <<>>]
    /\ rlLast = NoCall

\* new ErrorHandler()
EHInitState ==
    /\ circuitBreakers = << >>
    /\ tasks = [t \in Tasks |-> IdleTask]
    /\ ehLast = NoResult

\* new SecurityManager()
SMInitState ==
    /\ activeSessions = << >>
    /\ nextSession = 1
    /\ blockedUsers = << >>
    /\ auditLog = << >>
    /\ blockCalls = [u \in Users |-> NoBlockCall]
    /\ blockCallCount = [u \in Users |-> 0]
    /\ smLast = NoSMCall

\* new InputValidator(), and no message handled yet
BotInitState ==
    /\ lastIndex = [p \in Range(forbiddenPatterns) |-> 0]
    /\ botLast = NoMessage

\* how many concurrent checks there are beyond the limit
ExtraChecks == 2

\* the concurrent tasks, each one isRateLimited('u1', 'commands') call
ConcurrentChecks == 1..(limits["commands"] + ExtraChecks)

\* the tasks created, none run yet
ChecksInitState == checks = [c \in ConcurrentChecks |-> "pending"]

Init ==
    /\ now = 0
    /\ RLInitState
    /\ EHInitState
    /\ SMInitState
    /\ BotInitState
    /\ ChecksInitState

RLNext ==
    \/ \E k \in RLCallers \cup {<<"u1", "unknown">>} :
          isRateLimited(k[1], k[2]) /\ UNCHANGED <<ehVars, smVars, botVars, ccVars>>
    \/ \E k \in RLCallers : getRemainingRequests(k[1], k[2]) /\ UNCHANGED <<ehVars, smVars, botVars, ccVars>>
    \/ \E k \in RLCallers : clearRateLimit(k[1], k[2]) /\ UNCHANGED <<ehVars, smVars, botVars, ccVars>>
    \/ cleanup /\ UNCHANGED <<ehVars, smVars, botVars, ccVars>>
    \/ RLTick /\ UNCHANGED <<ehVars, smVars, botVars, ccVars>>

SpecRL == Init /\ [][RLNext]_vars

-----------------------------------------------------------------------------
(* The error handler: errors of two categories handled one call at a time, *)
(* the breaker methods called on their own, the clock.                      *)

EHCategories == {"NETWORK", "UNKNOWN"}

\* how many breaker timeouts the clock runs through
MaxTimeouts == 1

\* the instants the clock visits: the end of the shortest sleep, and each
\* multiple of the breaker timeout, 1 ms before it and 1 ms after it
EHInstants ==
    {0, retryDelay}
        \cup {i * circuitBreakerTimeout + e : i \in 1..MaxTimeouts, e \in {-1, 0, 1}}

EHTick ==
    /\ \E t \in EHInstants : t > now /\ now' = t
    /\ ehLast' = NoResult
    /\ UNCHANGED <<circuitBreakers, tasks>>

EHNext ==
    \/ \E error \in EHErrors : handleError("t1", error, 0) /\ UNCHANGED <<rlVars, smVars, botVars, ccVars>>
    \/ handleErrorResume("t1") /\ UNCHANGED <<rlVars, smVars, botVars, ccVars>>
    \/ \E category \in EHCategories : checkCircuitBreaker(category) /\ UNCHANGED <<rlVars, smVars, botVars, ccVars>>
    \/ \E category \in EHCategories, isFailure \in BOOLEAN :
          updateCircuitBreaker(category, isFailure) /\ UNCHANGED <<rlVars, smVars, botVars, ccVars>>
    \/ EHTick /\ UNCHANGED <<rlVars, smVars, botVars, ccVars>>

SpecEH == Init /\ [][EHNext]_vars

-----------------------------------------------------------------------------
(* The catch block of the message handler: handleError run with errors of  *)
(* two categories, some holding internals, and the reply made from what it  *)
(* returns; the clock as for the error handler.                             *)

ReplyNext ==
    \/ \E error \in ReplyErrors : handleError("t1", error, 0) /\ UNCHANGED <<rlVars, smVars, botVars, ccVars>>
    \/ handleErrorResume("t1") /\ UNCHANGED <<rlVars, smVars, botVars, ccVars>>
    \/ EHTick /\ UNCHANGED <<rlVars, smVars, botVars, ccVars>>

-----------------------------------------------------------------------------
(* Overlapping handleError calls: two calls in flight for errors of the     *)
(* category NETWORK, one whose recovery sleeps and succeeds and one whose   *)
(* recovery fails at once; the clock as for the error handler.              *)

OverlapErrors == {NetworkError, FetchError}

OverlapNext ==
    \/ \E task \in Tasks, error \in OverlapErrors :
          handleError(task, error, 0) /\ UNCHANGED <<rlVars, smVars, botVars, ccVars>>
    \/ \E task \in Tasks :
          handleErrorResume(task) /\ UNCHANGED <<rlVars, smVars, botVars, ccVars>>
    \/ EHTick /\ UNCHANGED <<rlVars, smVars, botVars, ccVars>>

SpecOverlap == Init /\ [][OverlapNext]_vars

-----------------------------------------------------------------------------
(* Retried errors: handleError called for recoverable errors of two         *)
(* categories with no retry made yet and with retryAttempts retries made;   *)
(* the clock as for the error handler.                                      *)

RetryErrors == {NetworkError, TestError}

RetryCounts == {0, retryAttempts}

RetryNext ==
    \/ \E error \in RetryErrors, retryCount \in RetryCounts :
          handleError("t1", error, retryCount)
          /\ UNCHANGED <<rlVars, smVars, botVars, ccVars>>
    \/ handleErrorResume("t1") /\ UNCHANGED <<rlVars, smVars, botVars, ccVars>>
    \/ EHTick /\ UNCHANGED <<rlVars, smVars, botVars, ccVars>>

SpecRetry == Init /\ [][RetryNext]_vars

SpecReply == Init /\ [][ReplyNext]_vars

-----------------------------------------------------------------------------
(* Categorization: handleError run with errors that carry keywords of the   *)
(* categories in their message, code or name; the clock as for the error    *)
(* handler.                                                                 *)

CategorizeNext ==
    \/ \E error \in CategorizeErrors :
          handleError("t1", error, 0) /\ UNCHANGED <<rlVars, smVars, botVars, ccVars>>
    \/ handleErrorResume("t1") /\ UNCHANGED <<rlVars, smVars, botVars, ccVars>>
    \/ EHTick /\ UNCHANGED <<rlVars, smVars, botVars, ccVars>>

SpecCategorize == Init /\ [][CategorizeNext]_vars

-----------------------------------------------------------------------------
(* The overall threat level: events of HIGH and of MEDIUM severity logged   *)
(* with the audit log at its full size, the level calculated, the clock at  *)
(* one hour after the start and 1 ms later.                                 *)

\* how many events are logged
MaxThreatEvents == 11

\* how many of them are of MEDIUM severity
MaxMediumEvents == 1

ThreatActions == {"USER_BLOCKED", "RATE_LIMIT_EXCEEDED"}

\* logSecurityEvent(userId, action) with the audit log at its full size
logThreatEvent(userId, action) ==
    /\ Len(auditLog) < MaxThreatEvents
    /\ action = "RATE_LIMIT_EXCEEDED" =>
          Len(SelectSeq(auditLog, LAMBDA e : e.action = action)) < MaxMediumEvents
    /\ auditLog' = LoggedAtFullSize(auditLog, now, userId, action)
    /\ smLast' = [NoSMCall EXCEPT !.op = "logSecurityEvent", !.userId = userId,
                                   !.reason = action]
    /\ UNCHANGED <<now, activeSessions, nextSession, blockedUsers, blockCalls, blockCallCount>>

ThreatInstants == {0, 60 * 60 * 1000, 60 * 60 * 1000 + 1}

ThreatTick ==
    /\ \E t \in ThreatInstants : t > now /\ now' = t
    /\ smLast' = NoSMCall
    /\ UNCHANGED <<activeSessions, nextSession, blockedUsers, auditLog, blockCalls,
                   blockCallCount>>

ThreatNext ==
    \/ \E action \in ThreatActions :
          logThreatEvent("u1", action) /\ UNCHANGED <<rlVars, ehVars, botVars, ccVars>>
    \/ calculateOverallThreatLevel /\ UNCHANGED <<rlVars, ehVars, botVars, ccVars>>
    \/ ThreatTick /\ UNCHANGED <<rlVars, ehVars, botVars, ccVars>>

SpecThreat == Init /\ [][ThreatNext]_vars

-----------------------------------------------------------------------------
(* The sessions of the security manager: sessions created for u1,          *)
(* validated by u1 and by u2, expired by hand and by the sweep, events     *)
(* logged, the clock around the session timeout.                           *)

\* how many session timeouts the clock runs through
MaxLifetimes == 1

\* the instants the clock visits: 1 ms before and 1 ms after each multiple
\* of the session timeout
SessionInstants ==
    {0} \cup {i * sessionTimeout + e : i \in 1..MaxLifetimes, e \in {-1, 1}}

SessionTick ==
    /\ \E t \in SessionInstants : t > now /\ now' = t
    /\ smLast' = NoSMCall
    /\ UNCHANGED <<activeSessions, nextSession, blockedUsers, auditLog, blockCalls,
                   blockCallCount>>

SessionNext ==
    \/ nextSession \in SessionIds /\ createSession("u1")
          /\ UNCHANGED <<rlVars, ehVars, botVars, ccVars>>
    \/ \E sessionId \in SessionIds, userId \in Users :
          validateSession(sessionId, userId) /\ UNCHANGED <<rlVars, ehVars, botVars, ccVars>>
    \/ \E sessionId \in SessionIds : expireSession(sessionId) /\ UNCHANGED <<rlVars, ehVars, botVars, ccVars>>
    \/ cleanupExpiredSessions /\ UNCHANGED <<rlVars, ehVars, botVars, ccVars>>
    \/ logSecurityEvent("u1", "TEST_ACTION") /\ UNCHANGED <<rlVars, ehVars, botVars, ccVars>>
    \/ SessionTick /\ UNCHANGED <<rlVars, ehVars, botVars, ccVars>>

SpecSession == Init /\ [][SessionNext]_vars

-----------------------------------------------------------------------------
(* The blocks of the security manager: u1 blocked for a given or the       *)
(* default duration, both users asked about and unblocked by hand, the     *)
(* clock around the ends of the blocks.                                     *)

\* the duration arguments of blockUser: none, and the 50 ms of the timeout test
TestBlockDuration == 50

BlockDurations == {0, TestBlockDuration}

BlockReasons == {"Security violation", "Temporary block"}

\* the instants the clock visits: the end of a block made at 0, 1 ms before
\* it and 1 ms after it
BlockInstants ==
    {0} \cup {BlockDurationOf(d) + e : d \in BlockDurations, e \in {-1, 0, 1}}

BlockTick ==
    /\ \E t \in BlockInstants : t > now /\ now' = t
    /\ smLast' = NoSMCall
    /\ UNCHANGED <<activeSessions, nextSession, blockedUsers, auditLog, blockCalls,
                   blockCallCount>>

BlockNext ==
    \/ \E reason \in BlockReasons, duration \in BlockDurations :
          blockUser("u1", reason, duration) /\ UNCHANGED <<rlVars, ehVars, botVars, ccVars>>
    \/ \E userId \in Users : isUserBlocked(userId) /\ UNCHANGED <<rlVars, ehVars, botVars, ccVars>>
    \/ \E userId \in Users : unblockUser(userId) /\ UNCHANGED <<rlVars, ehVars, botVars, ccVars>>
    \/ BlockTick /\ UNCHANGED <<rlVars, ehVars, botVars, ccVars>>

SpecBlock == Init /\ [][BlockNext]_vars

-----------------------------------------------------------------------------
(* The session sweep: sessions created for u1 early enough to time out      *)
(* within the run, presented by both users, swept by the interval task;     *)
(* the clock at the session timeout, 1 ms after it, and past the timeout    *)
(* of every session.  The clock advances and the interval task runs.        *)

SweepInstants ==
    {0} \cup {sessionTimeout + e : e \in {0, 1}} \cup {2 * sessionTimeout + 2}

SweepTick ==
    /\ \E t \in SweepInstants : t > now /\ now' = t
    /\ smLast' = NoSMCall
    /\ UNCHANGED <<activeSessions, nextSession, blockedUsers, auditLog, blockCalls,
                   blockCallCount>>

SweepNext ==
    \/ nextSession \in SessionIds /\ now <= sessionTimeout + 1 /\ createSession("u1")
          /\ UNCHANGED <<rlVars, ehVars, botVars, ccVars>>
    \/ \E sessionId \in SessionIds, userId \in Users :
          validateSession(sessionId, userId) /\ UNCHANGED <<rlVars, ehVars, botVars, ccVars>>
    \/ cleanupExpiredSessions /\ UNCHANGED <<rlVars, ehVars, botVars, ccVars>>
    \/ SweepTick /\ UNCHANGED <<rlVars, ehVars, botVars, ccVars>>

SpecSweep == Init /\ [][SweepNext]_vars

\* setInterval(() => this.cleanupExpiredSessions(), 10 * 60 * 1000): the
\* task keeps running, and time keeps passing
SpecSweepFair ==
    /\ SpecSweep
    /\ WF_vars(cleanupExpiredSessions /\ UNCHANGED <<rlVars, ehVars, botVars, ccVars>>)
    /\ WF_vars(SweepTick /\ UNCHANGED <<rlVars, ehVars, botVars, ccVars>>)

-----------------------------------------------------------------------------
(* Blocks of any duration: u1 blocked with no duration, a positive and a   *)
(* negative one, asked about and unblocked by hand; the clock as for the    *)
(* blocks.                                                                  *)

AnyBlockDurations == BlockDurations \cup {-TestBlockDuration}

AnyBlockNext ==
    \/ \E reason \in BlockReasons, duration \in AnyBlockDurations :
          blockUser("u1", reason, duration) /\ UNCHANGED <<rlVars, ehVars, botVars, ccVars>>
    \/ \E userId \in Users : isUserBlocked(userId) /\ UNCHANGED <<rlVars, ehVars, botVars, ccVars>>
    \/ \E userId \in Users : unblockUser(userId) /\ UNCHANGED <<rlVars, ehVars, botVars, ccVars>>
    \/ BlockTick /\ UNCHANGED <<rlVars, ehVars, botVars, ccVars>>

SpecAnyBlock == Init /\ [][AnyBlockNext]_vars

-----------------------------------------------------------------------------
(* Session creation: sessions created for both users, presented and        *)
(* expired by hand, all at one instant.                                     *)

\* how many sessions are created
MaxCreated == 2

CreatedIds == 1..MaxCreated

CreateNext ==
    \/ \E userId \in Users :
          nextSession \in CreatedIds /\ createSession(userId)
          /\ UNCHANGED <<rlVars, ehVars, botVars, ccVars>>
    \/ \E sessionId \in CreatedIds, userId \in Users :
          validateSession(sessionId, userId) /\ UNCHANGED <<rlVars, ehVars, botVars, ccVars>>
    \/ \E sessionId \in CreatedIds :
          expireSession(sessionId) /\ UNCHANGED <<rlVars, ehVars, botVars, ccVars>>

SpecCreate == Init /\ [][CreateNext]_vars

-----------------------------------------------------------------------------
(* The bot under traffic: text messages of two senders, well-formed and    *)
(* not, the clock around the end of a block.                               *)

PlainBody ==
    [present |-> TRUE, length |-> 5, rawLength |-> 5, command |-> FALSE,
     matches |-> NoMatches, bypass |-> FALSE, encodingOk |-> TRUE]

\* '/attendance'
CommandBody == [PlainBody EXCEPT !.length = 11, !.rawLength = 11, !.command = TRUE]

\* 'DROP TABLE users': the SQL pattern matches DROP at 0..4
SqlBody ==
    [PlainBody EXCEPT !.length = 16, !.rawLength = 16,
                      !.matches = [NoMatches EXCEPT !["sql"] = << <<0, 4>> >>]]

\* a body one character over maxLengths.message
LongBody ==
    [PlainBody EXCEPT !.length = maxMessageLength + 1, !.rawLength = maxMessageLength + 1]

\* a body holding a right-to-left mark
BypassBody == [PlainBody EXCEPT !.bypass = TRUE]

\* message.body undefined or empty
NoBody == [PlainBody EXCEPT !.present = FALSE, !.length = 0, !.rawLength = 0]

Bodies ==
    [hello |-> PlainBody, command |-> CommandBody, sql |-> SqlBody, long |-> LongBody,
     bypass |-> BypassBody, nobody |-> NoBody]

\* u1 sends every body but the command, u2 the command; one message comes
\* from a group and one from a sender id that is no phone number
Messages ==
    {[from |-> IF id = "command" THEN "u2" ELSE "u1", id |-> id, group |-> FALSE,
      phoneOk |-> TRUE, body |-> Bodies[id]] : id \in DOMAIN Bodies}
    \cup {[from |-> "u1", id |-> "group", group |-> TRUE, phoneOk |-> TRUE,
           body |-> PlainBody],
          [from |-> "u1", id |-> "phone", group |-> FALSE, phoneOk |-> FALSE,
           body |-> PlainBody]}

\* the instants the clock visits: the end of a block made at 0 and 1 ms
\* after it, by when every rate window begun at 0 is over
BotInstants == {0, MaliciousBlockDuration, MaliciousBlockDuration + 1}

BotTick ==
    /\ \E t \in BotInstants :
          /\ t > now
          /\ now' = t
          /\ rlAdmitted' = [k \in Keys |-> StillInWindow(rlAdmitted[k], t, k[2])]
    /\ rlLast' = NoCall
    /\ smLast' = NoSMCall
    /\ botLast' = NoMessage
    /\ UNCHANGED <<store, cleanupDue, activeSessions, nextSession, blockedUsers, auditLog,
                   blockCalls, blockCallCount, lastIndex>>

BotNext ==
    \/ \E message \in Messages : onMessage(message) /\ UNCHANGED <<ehVars, ccVars>>
    \/ BotTick /\ UNCHANGED <<ehVars, ccVars>>

SpecBot == Init /\ [][BotNext]_vars

-----------------------------------------------------------------------------
(* Concurrent rate limit checks: N tasks, each one synchronous call        *)
(* isRateLimited('u1', 'commands'), run in any order at instants of one     *)
(* window. A call is one uninterrupted stretch of the event loop.           *)

\* the task c runs its call and keeps what it returned
RunCheck(c) ==
    /\ checks[c] = "pending"
    /\ isRateLimited("u1", "commands")
    /\ checks' = [checks EXCEPT ![c] = IF rlLast'.limited THEN "limited" ELSE "admitted"]

\* the clock moves on inside the window opened at 0
ConcurrentTick ==
    /\ RLTick
    /\ now' < WindowMs("commands")
    /\ UNCHANGED checks

ConcurrentNext ==
    \/ \E c \in ConcurrentChecks : RunCheck(c) /\ UNCHANGED <<ehVars, smVars, botVars>>
    \/ ConcurrentTick /\ UNCHANGED <<ehVars, smVars, botVars>>

SpecConcurrent == Init /\ [][ConcurrentNext]_vars

-----------------------------------------------------------------------------
(* Suspicious activity: one user sending commands and messages, asked       *)
(* about, the clock as for the rate limiter.                                *)

SuspiciousNext ==
    \/ \E type \in {"commands", "messages"} :
          isRateLimited("u1", type) /\ UNCHANGED <<ehVars, smVars, botVars, ccVars>>
    \/ detectSuspiciousActivity("u1") /\ UNCHANGED <<ehVars, smVars, botVars, ccVars>>
    \/ RLTick /\ UNCHANGED <<ehVars, smVars, botVars, ccVars>>

SpecSuspicious == Init /\ [][SuspiciousNext]_vars

-----------------------------------------------------------------------------
(* Rate limiter claims *)

\* the admitted requests of the key that were in the window before the last call
PriorAdmitted(key) ==
    IF rlLast.limited THEN rlAdmitted[key]
    ELSE SubSeq(rlAdmitted[key], 1, Len(rlAdmitted[key]) - 1)

\* C1: a request of a class with limit L is reported limited exactly when L
\* requests of its key were already admitted less than one window ago: within
\* a window the first L requests return false and every further one returns
\* true, and no window ever holds more than L admitted requests.
ThmC1 ==
    /\ \A k \in Keys : Len(rlAdmitted[k]) <= limits[k[2]]
    /\ (rlLast.op = "isRateLimited" /\ rlLast.type \in Types) =>
          (rlLast.limited <=>
              Len(PriorAdmitted(<<rlLast.userId, rlLast.type>>)) >= limits[rlLast.type])

\* C1 witness: the request after the L-th of one window has just been reported limited
WitC1 ==
    /\ rlLast.op = "isRateLimited"
    /\ rlLast.userId = "u1" /\ rlLast.type = "commands"
    /\ rlLast.limited
    /\ Len(rlAdmitted[<<"u1", "commands">>]) = commandsPerMinute

\* C7: once the window has elapsed from the oldest recorded request of a key,
\* getRemainingRequests returns more than it returned 1 ms before that
\* instant, and the next isRateLimited call of the key is admitted.
C7Step(k) ==
    LET oldest == Min(Range(store[k]))
        elapsed == oldest + WindowMs(k[2])
        called(op) == rlLast'.op = op /\ rlLast'.userId = k[1] /\ rlLast'.type = k[2]
    IN  (store[k] # <<>> /\ now >= elapsed) =>
          /\ called("getRemainingRequests") =>
                rlLast'.value > RemainingRequests(k[1], k[2], elapsed - 1)
          /\ called("isRateLimited") => ~rlLast'.limited

ThmC7 == [][\A k \in Keys : C7Step(k)]_vars

\* C7 witness: a key that had used its whole budget is asked for its
\* remaining requests after the window of its oldest request has elapsed
WitC7 ==
    LET k == <<"u1", "commands">>
    IN  /\ rlLast.op = "getRemainingRequests" /\ rlLast.userId = "u1"
        /\ rlLast.type = "commands"
        /\ Len(store[k]) = commandsPerMinute
        /\ now >= Min(Range(store[k])) + WindowMs("commands")
        /\ rlLast.value > 0

-----------------------------------------------------------------------------
(* Circuit breaker claims *)

\* the step records an outcome for the category: updateCircuitBreaker called
\* on its own, or by handleError once its recovery has returned
Recorded(category, isFailure) ==
    /\ ehLast'.category = category
    /\ ehLast'.isFailure = isFailure
    /\ \/ ehLast'.op = "updateCircuitBreaker"
       \/ ehLast'.op = "handleError" /\ ehLast'.step \in {"call", "resume"}
             /\ ehLast'.attempted

\* the step checks the breaker of the category: checkCircuitBreaker called on
\* its own, or by handleError when it starts
Checked(category) ==
    /\ ehLast'.category = category
    /\ \/ ehLast'.op = "checkCircuitBreaker"
       \/ ehLast'.op = "handleError" /\ ehLast'.step \in {"call", "await"}

C2Step(category) ==
    LET circuit == CircuitOf(circuitBreakers, category)
        after == circuitBreakers'[category]
        elapsed == circuit.state = "OPEN" /\ now >= circuit.nextAttempt
        halfOpen == \/ circuit.state = "HALF_OPEN"
                    \/ ehLast'.op = "handleError" /\ ehLast'.step = "call" /\ elapsed
    IN  /\ Recorded(category, TRUE) =>
              /\ after.failures = circuit.failures + 1
              /\ after.failures >= 5 =>
                    /\ after.state = "OPEN"
                    /\ after.nextAttempt = now + circuitBreakerTimeout
        /\ (Checked(category) /\ circuit.state = "OPEN" /\ ~elapsed) =>
              /\ ehLast'.circuitState.isOpen
              /\ ehLast'.circuitState.state = "OPEN"
        /\ (Checked(category) /\ elapsed) =>
              /\ ~ehLast'.circuitState.isOpen
              /\ ehLast'.circuitState.state = "HALF_OPEN"
        /\ (Recorded(category, FALSE) /\ halfOpen) =>
              /\ after.failures = 0
              /\ after.state = "CLOSED"

\* C2: every recorded failure adds one to the failures of its category, and
\* with five or more the breaker is OPEN until the breaker timeout from that
\* failure; a check of an OPEN breaker before that instant reports isOpen, a
\* check from that instant on reports HALF_OPEN and not isOpen; a success
\* recorded on a HALF_OPEN breaker sets failures to 0 and the state to CLOSED.
ThmC2 == [][\A category \in EHCategories : C2Step(category)]_vars

\* C2 witness: a breaker that was opened has been closed again by a success,
\* which takes the five failures, the timeout, the check and the success
WitC2 ==
    /\ "NETWORK" \in DOMAIN circuitBreakers
    /\ circuitBreakers["NETWORK"].state = "CLOSED"
    /\ circuitBreakers["NETWORK"].failures = 0
    /\ circuitBreakers["NETWORK"].nextAttempt = circuitBreakerTimeout
    /\ ehLast.category = "NETWORK" /\ ehLast.op = "updateCircuitBreaker"
    /\ ~ehLast.isFailure

C8Step(category) ==
    LET circuit == CircuitOf(circuitBreakers, category)
    IN  (/\ circuit.state = "OPEN" /\ now < circuit.nextAttempt
         /\ ehLast'.op = "handleError" /\ ehLast'.step = "call"
         /\ ehLast'.category = category) =>
            /\ ehLast'.circuitBreakerOpen
            /\ ~ehLast'.attempted
            /\ tasks' = tasks
            /\ circuitBreakers'[category] = circuit
            /\ ehLast'.waitTime = circuit.nextAttempt - now
            /\ ehLast'.waitTime > 0

\* C8: a handleError call for a category whose breaker is OPEN before its
\* nextAttempt returns the circuit-open result without starting a recovery,
\* leaves the failures, state and nextAttempt of that breaker as they were,
\* and its waitTime is nextAttempt - now, which is positive.
ThmC8 == [][\A category \in EHCategories : C8Step(category)]_vars

\* C8 witness: handleError has just returned the circuit-open result for an
\* OPEN breaker, some time into the breaker timeout
WitC8 ==
    /\ ehLast.op = "handleError" /\ ehLast.circuitBreakerOpen
    /\ ehLast.category = "NETWORK"
    /\ circuitBreakers["NETWORK"].state = "OPEN"
    /\ now > 0 /\ now < circuitBreakers["NETWORK"].nextAttempt
    /\ ehLast.waitTime = circuitBreakers["NETWORK"].nextAttempt - now

-----------------------------------------------------------------------------
(* Session and audit log claims *)

\* the step is validateSession(sessionId, userId)
Validated(sessionId, userId) ==
    /\ smLast'.op = "validateSession"
    /\ smLast'.sessionId = sessionId
    /\ smLast'.userId = userId

C3Step(sessionId, userId) ==
    LET n == Len(auditLog')
    IN  (/\ sessionId \in DOMAIN activeSessions
         /\ activeSessions[sessionId].userId # userId
         /\ Validated(sessionId, userId)) =>
            /\ ~smLast'.isValid
            /\ smLast'.reason = "Session mismatch"
            /\ activeSessions' = activeSessions
            /\ n >= 1
            /\ auditLog'[n].action = "SESSION_HIJACK_ATTEMPT"
            /\ auditLog'[n].severity = 3
            /\ auditLog'[n].userId = userId
            /\ auditLog'[n].timestamp = now
            /\ SubSeq(auditLog', 1, n - 1) =
                  SubSeq(auditLog, Len(auditLog) - n + 2, Len(auditLog))

\* C3: validateSession(id, p2) on a live session of another user p1 returns
\* invalid with reason 'Session mismatch', leaves the session in place, and
\* the audit log then ends with a SESSION_HIJACK_ATTEMPT event of severity
\* HIGH (3) for p2 stamped now, put after the events that were there.
ThmC3 == [][\A sessionId \in SessionIds, userId \in Users : C3Step(sessionId, userId)]_vars

\* C3 witness: u2 has just presented the live session of u1
WitC3 ==
    /\ smLast.op = "validateSession" /\ smLast.userId = "u2"
    /\ smLast.reason = "Session mismatch"
    /\ smLast.sessionId \in DOMAIN activeSessions
    /\ activeSessions[smLast.sessionId].userId = "u1"
    /\ auditLog[Len(auditLog)].action = "SESSION_HIJACK_ATTEMPT"
    /\ auditLog[Len(auditLog)].severity = HIGH

\* C5: the audit log never holds more than maxAuditLogSize events.
CexC5 == Len(auditLog) <= maxAuditLogSize

C6Step(sessionId) ==
    LET session == activeSessions[sessionId]
        age == now - session.createdAt
    IN  (sessionId \in DOMAIN activeSessions /\ Validated(sessionId, session.userId)) =>
            /\ age < sessionTimeout =>
                  /\ smLast'.isValid
                  /\ sessionId \in DOMAIN activeSessions'
                  /\ activeSessions'[sessionId] = [session EXCEPT !.lastActivity = now]
            /\ age > sessionTimeout =>
                  /\ ~smLast'.isValid
                  /\ smLast'.reason = "Session expired"
                  /\ sessionId \notin DOMAIN activeSessions'

\* C6: validateSession called by the owner of a live session accepts it, and
\* refreshes lastActivity, whenever less than sessionTimeout has passed since
\* its creation (so at T - 1 ms), and rejects it as expired and removes it
\* whenever more has passed (so at T + 1 ms), whatever its lastActivity is.
ThmC6 == [][\A sessionId \in SessionIds : C6Step(sessionId)]_vars

\* C6 witness: a session validated 1 ms before its timeout has just been
\* rejected 1 ms after it
WitC6 ==
    /\ smLast.op = "validateSession" /\ smLast.reason = "Session expired"
    /\ smLast.session.lastActivity = smLast.session.createdAt + sessionTimeout - 1
    /\ now = smLast.session.createdAt + sessionTimeout + 1
    /\ smLast.sessionId \notin DOMAIN activeSessions

-----------------------------------------------------------------------------
(* Block claims *)

\* the step is isUserBlocked(userId)
AskedBlocked(userId) == smLast'.op = "isUserBlocked" /\ smLast'.userId = userId

\* the duration a blockUser call asks for: its argument, or 30 minutes when
\* the argument is absent or 0
AskedDuration(call) == IF call.duration # 0 THEN call.duration ELSE 1800000

C4Step(userId) ==
    LET call == blockCalls[userId]
        d == AskedDuration(call)
        n == Len(auditLog')
    IN  (call # NoBlockCall /\ AskedBlocked(userId)) =>
            /\ now <= call.at + d =>
                  /\ smLast'.isBlocked
                  /\ smLast'.reason = call.reason
                  /\ smLast'.remainingTime = call.at + d - now
                  /\ smLast'.remainingTime >= 0 /\ smLast'.remainingTime <= d
                  /\ blockedUsers' = blockedUsers
            /\ now > call.at + d =>
                  /\ ~smLast'.isBlocked
                  /\ userId \notin DOMAIN blockedUsers'
                  /\ auditLog'[n].action = "USER_UNBLOCKED"
                  /\ auditLog'[n].userId = userId

\* C4 (amended): after blockUser(p, reason, d), with d' = d, or 30 minutes when
\* d is absent or 0, and until p is blocked again or unblocked by hand,
\* isUserBlocked(p) returns blocked with that reason and the remaining time
\* blockedAt + d' - now, which lies in 0..d', at every instant up to and
\* including blockedAt + d'; at every later instant it returns not blocked,
\* removes the block record of p and logs USER_UNBLOCKED.
ThmC4 == [][\A userId \in Users : C4Step(userId)]_vars

\* C4 witness: a user blocked for 50 ms is still reported blocked, with no
\* time remaining, exactly 50 ms after the block
WitC4 ==
    /\ smLast.op = "isUserBlocked" /\ smLast.isBlocked
    /\ smLast.remainingTime = 0
    /\ blockCalls[smLast.userId].duration = TestBlockDuration
    /\ now = blockCalls[smLast.userId].at + TestBlockDuration

C4Original(userId) ==
    LET call == blockCalls[userId]
    IN  (call # NoBlockCall /\ call.duration > 0 /\ AskedBlocked(userId)) =>
            /\ now < call.at + call.duration =>
                  /\ smLast'.isBlocked
                  /\ smLast'.reason = call.reason
                  /\ smLast'.remainingTime >= 0
                  /\ smLast'.remainingTime <= call.duration
            /\ now >= call.at + call.duration =>
                  /\ ~smLast'.isBlocked
                  /\ userId \notin DOMAIN blockedUsers'

\* C4 as stated: after blockUser(p, reason, d) with d > 0, isUserBlocked(p)
\* returns blocked with that reason and a remaining time in 0..d at every
\* instant before blockedAt + d, and from blockedAt + d on it returns not
\* blocked and the block record of p is removed.
CexC4 == [][\A userId \in Users : C4Original(userId)]_vars

-----------------------------------------------------------------------------
(* Message handler claims *)

\* the body of the message the step handled
HandledBody == IF botLast'.id \in DOMAIN Bodies THEN Bodies[botLast'.id] ELSE PlainBody

\* the sender is blocked when the message arrives
SenderBlocked(userId) ==
    userId \in DOMAIN blockedUsers /\ now <= blockedUsers[userId].blockedUntil

\* the sender has used up the budget of the message's class when it arrives
SenderLimited(userId, body) ==
    LET type == IF body.command THEN "commands" ELSE "messages"
    IN  Cardinality({i \in DOMAIN store[<<userId, type>>] :
                        now - store[<<userId, type>>][i] < WindowMs(type)}) >= limits[type]

\* the payload is neither missing, oversized nor malicious
PayloadClean(body) ==
    /\ body.present
    /\ body.rawLength <= 1000
    /\ \A p \in DOMAIN body.matches : body.matches[p] = << >>
    /\ ~body.bypass
    /\ body.encodingOk

\* the sender holds a session that validateSession would accept
SessionValid(userId) ==
    \E sessionId \in DOMAIN activeSessions :
        /\ activeSessions[sessionId].userId = userId
        /\ activeSessions[sessionId].isActive
        /\ now - activeSessions[sessionId].createdAt <= sessionTimeout

C9Step ==
    LET userId == botLast'.userId
    IN  (botLast'.op = "message" /\ botLast'.outcome # "ignored") =>
            /\ botLast'.outcome = "delivered" =>
                  /\ ~SenderBlocked(userId)
                  /\ ~SenderLimited(userId, HandledBody)
                  /\ PayloadClean(HandledBody)
                  /\ SessionValid(userId)
            /\ SenderBlocked(userId) =>
                  /\ botLast'.outcome # "delivered"
                  /\ store' = store

\* C9: a message is handed to the command or message handler only if its
\* sender is not blocked, is not rate limited, its payload passes the
\* security check and its sender's session is valid; the message of a
\* blocked sender is rejected and uses no rate budget.
CexC9 == [][C9Step]_vars

C10Step ==
    LET userId == botLast'.userId
    IN  (/\ botLast'.op = "message"
         /\ botLast'.outcome \in {"invalid", "malicious"}
         /\ ~PayloadClean(HandledBody)) =>
            /\ userId \in DOMAIN blockedUsers'
            /\ blockedUsers'[userId].blockedAt = now

\* C10: every message rejected because its payload is malicious, oversized
\* or malformed has blockUser called for its sender by the step that
\* rejects it.
CexC10 == [][C10Step]_vars

-----------------------------------------------------------------------------
(* Block count and escalation claims *)

\* C11: the record stored by the n-th blockUser call for a user has
\* blockCount = n, whatever unblocks happened in between.
CexC11 ==
    \A userId \in DOMAIN blockedUsers :
        blockedUsers[userId].blockCount = blockCallCount[userId]

\* securityConfig.userSecurity.escalationMultiplier and maxBlockDuration of
\* the configuration (config/security.js); blockUser reads neither
escalationMultiplier == 2

maxBlockDuration == 24 * 60 * 60 * 1000

RECURSIVE Power(_, _)
Power(b, n) == IF n = 0 THEN 1 ELSE b * Power(b, n - 1)

\* base * escalationMultiplier^(k-1), capped at maxBlockDuration
EscalatedDuration(k) ==
    LET d == blockDuration * Power(escalationMultiplier, k - 1)
    IN  IF d > maxBlockDuration THEN maxBlockDuration ELSE d

\* C12: the block stored by the k-th block of a user made with the default
\* duration lasts base * escalationMultiplier^(k-1), capped at
\* maxBlockDuration: 30 minutes for the first, 1 hour for the second.
CexC12 ==
    \A userId \in DOMAIN blockedUsers :
        blockCalls[userId].duration = 0 =>
            blockedUsers[userId].blockedUntil - blockedUsers[userId].blockedAt =
                EscalatedDuration(blockedUsers[userId].blockCount)

-----------------------------------------------------------------------------
(* Audit log order and session lifecycle claims *)

\* the step is logSecurityEvent(userId, action) called on its own
C13Step ==
    LET all == Append(auditLog, SecurityEvent(now, smLast'.userId, smLast'.reason))
        n == Len(auditLog')
    IN  smLast'.op = "logSecurityEvent" =>
            /\ n = Min({Len(all), maxAuditLogSize})
            /\ \A i \in 1..n : auditLog'[i] = all[Len(all) - n + i]

\* C13: each logSecurityEvent call leaves the most recent maxAuditLogSize of
\* the events held before it followed by the new one, in their order, so the
\* events dropped are the oldest (first in, first out).
ThmC13 == [][C13Step]_vars

\* C13 witness: the log is full of events of logSecurityEvent, and the
\* SESSION_CREATED event that was logged before them has been evicted
WitC13 ==
    /\ smLast.op = "logSecurityEvent"
    /\ nextSession > 1
    /\ Len(auditLog) = maxAuditLogSize
    /\ \A i \in 1..Len(auditLog) : auditLog[i].action = "TEST_ACTION"
    /\ auditLog[1].timestamp < auditLog[Len(auditLog)].timestamp

\* the session ids created and no longer registered
ExpiredIds == {sessionId \in SessionIds :
                  sessionId < nextSession /\ sessionId \notin DOMAIN activeSessions}

C14Step(sessionId) ==
    /\ (smLast'.op = "expireSession" /\ smLast'.sessionId = sessionId) =>
          sessionId \notin DOMAIN activeSessions'
    /\ (smLast'.op = "validateSession" /\ smLast'.sessionId = sessionId
        /\ smLast'.reason = "Session expired") =>
          sessionId \notin DOMAIN activeSessions'
    /\ (smLast'.op = "cleanupExpiredSessions" /\ sessionId \in DOMAIN activeSessions
        /\ TimedOut(activeSessions[sessionId], now)) =>
          sessionId \notin DOMAIN activeSessions'
    /\ sessionId \in ExpiredIds =>
          /\ sessionId \notin DOMAIN activeSessions'
          /\ \A userId \in Users : Validated(sessionId, userId) => ~smLast'.isValid

\* C14: a session that expireSession has run on (called by hand, by
\* validateSession on a timed out session, or by the sweep) is out of the
\* registry, no step puts it back, and every later validateSession on its id,
\* by whatever user, returns invalid.
ThmC14 == [][\A sessionId \in SessionIds : C14Step(sessionId)]_vars

\* C14 witness: the owner of a session expired at an earlier instant has just
\* presented it and been refused
WitC14 ==
    /\ smLast.op = "validateSession" /\ smLast.userId = "u1"
    /\ smLast.sessionId \in ExpiredIds
    /\ ~smLast.isValid /\ smLast.reason = "Session not found"
    /\ now > 0

C15Step(sessionId) ==
    (/\ smLast'.op = "expireSession"
     /\ smLast'.sessionId = sessionId
     /\ sessionId \notin DOMAIN activeSessions) =>
        /\ activeSessions' = activeSessions
        /\ auditLog' = auditLog

\* C15: expireSession on an id that is not registered, because the session
\* was expired before or because the id was never given out, changes neither
\* the registry nor the audit log.
ThmC15 == [][\A sessionId \in SessionIds : C15Step(sessionId)]_vars

\* C15 witness: expireSession has just been called on a session expired
\* before, with SESSION_EXPIRED events in the log
WitC15 ==
    /\ smLast.op = "expireSession"
    /\ smLast.session = NoSession
    /\ smLast.sessionId \in ExpiredIds
    /\ \E i \in 1..Len(auditLog) : auditLog[i].action = "SESSION_EXPIRED"

-----------------------------------------------------------------------------
(* Concurrent rate limit checks claim *)

ChecksDone == {c \in ConcurrentChecks : checks[c] # "pending"}

ChecksAdmitted == {c \in ConcurrentChecks : checks[c] = "admitted"}

ChecksLimited == {c \in ConcurrentChecks : checks[c] = "limited"}

\* C16: of the concurrent checks of one key run so far within one window,
\* in whatever order, the first `limit` were admitted and all others limited:
\* once all N > limit have run, exactly `limit` are admitted and N - limit
\* limited.
ThmC16 ==
    /\ Cardinality(ChecksAdmitted) = Min({Cardinality(ChecksDone), limits["commands"]})
    /\ ChecksDone = ConcurrentChecks =>
          /\ Cardinality(ChecksAdmitted) = limits["commands"]
          /\ Cardinality(ChecksLimited) = Cardinality(ConcurrentChecks) - limits["commands"]

\* C16 witness: all tasks have run, the first created was limited and the
\* last created admitted
WitC16 ==
    /\ ChecksDone = ConcurrentChecks
    /\ checks[1] = "limited"
    /\ checks[Cardinality(ConcurrentChecks)] = "admitted"
    /\ now > 0

-----------------------------------------------------------------------------
(* Error classification claim *)

\* C17: while handleError(new Error("ECONNREFUSED"), {retryCount: 0}) waits
\* in its recovery, the error was classified as category NETWORK, priority
\* HIGH and recoverable, and the recovery is a retry whose delay is
\* retryDelay.
CexC17 ==
    LET errorInfo == analyzeError(NetworkError, 0)
        task == tasks["t1"]
    IN  (task.pc = "sleeping" /\ task.category = "NETWORK") =>
            /\ errorInfo.category = "NETWORK"
            /\ errorInfo.priority = HIGH
            /\ errorInfo.isRecoverable
            /\ task.recovery.success
            /\ task.recovery.strategy = "retry"
            /\ task.recovery.delay = retryDelay

-----------------------------------------------------------------------------
(* User-visible failure message claim *)

\* handleError has returned
Returned == ehLast.op = "handleError" /\ ehLast.step \in {"call", "resume"}

\* the generic text of each category
CategoryText(category) ==
    CASE category = "NETWORK" -> "Network connection issue. Please try again in a moment."
      [] category = "DATABASE" ->
            "Data service temporarily unavailable. Please try again later."
      [] category = "UNKNOWN" -> "Temporary service issue. Please try again later."

\* C18: the failure text the user is sent after handleError returned without
\* a successful recovery is the generic text of the error's category,
\* whatever the error's message, code and name are, and the generic default
\* text when the breaker was open; no text is made of the error's fields.
ThmC18 ==
    (Returned /\ ~ehLast.success) =>
        /\ ehLast.circuitBreakerOpen =>
              UserMessage(ehLast) = "Temporary service issue. Please try again later."
        /\ ~ehLast.circuitBreakerOpen =>
              /\ ehLast.errorInfo.category = ehLast.category
              /\ UserMessage(ehLast) = CategoryText(ehLast.category)

\* C18 witness: an error whose message holds a secret and whose recovery
\* failed was answered with the text of its category
WitC18 ==
    /\ Returned /\ ~ehLast.success /\ ~ehLast.circuitBreakerOpen
    /\ Includes(ehLast.errorInfo.message, "secret123")
    /\ ehLast.errorInfo.code = "EACCES"
    /\ UserMessage(ehLast) = "Network connection issue. Please try again in a moment."

-----------------------------------------------------------------------------
(* Denial reply claim *)

C19Step ==
    (botLast'.op = "message" /\ botLast'.outcome \in {"blocked", "limited"}) =>
        botLast'.replied

\* C19: every message refused because its sender is blocked or rate limited
\* is answered with a reply (carrying the remaining block time or the
\* seconds to the reset of the window); none is dropped in silence.
CexC19 == [][C19Step]_vars

-----------------------------------------------------------------------------
(* Threat analysis claim *)

\* the actions that record a security violation
ViolationActions ==
    {"RATE_LIMIT_EXCEEDED", "INVALID_SESSION_ACCESS", "MALICIOUS_INPUT_DETECTED",
     "USER_BLOCKED"}

\* the violation events of the user in the last 5 minutes
RecentViolations(userId) ==
    SelectSeq(getRecentEvents(auditLog, userId, 5 * 60 * 1000, now),
              LAMBDA event : event.action \in ViolationActions)

\* C20: for a user with violation events in the last 5 minutes,
\* analyzeSecurityThreats(user, 'ATTACK') returns at least one finding, and a
\* finding of severity HIGH or more when one of those events is of severity
\* HIGH or more.
CexC20 ==
    \A userId \in Users :
        LET threats == analyzeSecurityThreats(auditLog, userId, "ATTACK", now)
            violations == RecentViolations(userId)
        IN  violations # << >> =>
                /\ threats # << >>
                /\ (\E i \in 1..Len(violations) : violations[i].severity >= HIGH) =>
                      \E j \in 1..Len(threats) : threats[j].severity >= HIGH

-----------------------------------------------------------------------------
(* Overall threat level claim *)

\* the events of severity HIGH or more stamped within the last hour
RecentHighCount ==
    Cardinality({i \in DOMAIN auditLog :
                    /\ now - auditLog[i].timestamp <= 3600000
                    /\ auditLog[i].severity \in {HIGH, CRITICAL}})

\* C21: calculateOverallThreatLevel returns LOW (1) for fewer than 3,
\* MEDIUM (2) for 3 to 5, HIGH (3) for 6 to 10 and CRITICAL (4) for more than
\* 10 events of severity HIGH or more stamped within the last hour; events
\* older than one hour do not count.
ThmC21 ==
    smLast.op = "calculateOverallThreatLevel" =>
        /\ smLast.level \in 1..4
        /\ RecentHighCount < 3 => smLast.level = 1
        /\ RecentHighCount \in 3..5 => smLast.level = 2
        /\ RecentHighCount \in 6..10 => smLast.level = 3
        /\ RecentHighCount > 10 => smLast.level = 4

\* C21 witness: more than 10 events of HIGH severity are in the log, some
\* of them older than one hour, and the level calculated is HIGH
WitC21 ==
    /\ smLast.op = "calculateOverallThreatLevel"
    /\ smLast.level = 3
    /\ Len(auditLog) > 10
    /\ \A i \in DOMAIN auditLog : auditLog[i].severity = HIGH
    /\ RecentHighCount = 6

-----------------------------------------------------------------------------
(* Suspicious activity claim *)

\* the classes in which the user has no request left
Exhausted(userId) ==
    {type \in Types :
        Cardinality({i \in DOMAIN store[<<userId, type>>] :
                        now - store[<<userId, type>>][i] < WindowMs(type)}) >= limits[type]}

\* C22: detectSuspiciousActivity for a user who has used up the budgets of
\* the classes 'commands' and 'messages', and of no other class, returns
\* isSuspicious = true with severity 'high'.
CexC22 ==
    (/\ rlLast.op = "detectSuspiciousActivity"
     /\ Exhausted(rlLast.userId) = {"commands", "messages"}) =>
        /\ rlLast.limited
        /\ SuspiciousActivity(rlLast.userId, now).isSuspicious
        /\ SuspiciousActivity(rlLast.userId, now).severity = "high"

-----------------------------------------------------------------------------
(* Session creation claim *)

C23Step ==
    /\ smLast'.op = "createSession" =>
          LET sessionId == smLast'.sessionId
          IN  /\ sessionId \notin DOMAIN activeSessions
              /\ sessionId \notin 1..(nextSession - 1)
              /\ sessionId \in DOMAIN activeSessions'
              /\ activeSessions'[sessionId].userId = smLast'.userId
              /\ activeSessions'[sessionId].isActive
              /\ activeSessions'[sessionId].threatLevel = LOW
              /\ \A other \in DOMAIN activeSessions :
                    activeSessions'[other] = activeSessions[other]
    /\ (smLast.op = "createSession" /\ Validated(smLast.sessionId, smLast.userId)) =>
          /\ smLast'.isValid
          /\ smLast'.session.userId = smLast.userId

\* C23: createSession(p) returns an id that is neither registered nor was
\* returned before (the ids returned before are 1..nextSession-1), stores
\* under it an active session of p with threat level LOW and leaves the
\* other sessions alone; validateSession(id, p) as the next call succeeds
\* and returns a session owned by p.
ThmC23 == [][C23Step]_vars

\* C23 witness: the second session of one user has just been validated
\* while the first is still registered
WitC23 ==
    /\ smLast.op = "validateSession" /\ smLast.isValid
    /\ smLast.sessionId = 2
    /\ {1, 2} \subseteq DOMAIN activeSessions
    /\ activeSessions[1].userId = activeSessions[2].userId

-----------------------------------------------------------------------------
(* Categorization claim *)

\* a keyword of the i-th category occurs, whatever the case of its letters,
\* in the message, in the code or in the name
KeywordOccurs(errorInfo, i) ==
    \E pattern \in errorCategories[i][2], field \in {"message", "code", "name"} :
        Includes(ToLowerCase(errorInfo[field]), ToLowerCase(pattern))

\* the first category a keyword of which occurs, UNKNOWN when there is none
FirstCategory(errorInfo) ==
    IF \E i \in 1..Len(errorCategories) : KeywordOccurs(errorInfo, i)
      THEN errorCategories[Min({i \in 1..Len(errorCategories) :
                                   KeywordOccurs(errorInfo, i)})][1]
      ELSE "UNKNOWN"

\* C24: the category handleError works with is the first of NETWORK,
\* DATABASE, WHATSAPP, VALIDATION, SYSTEM one of whose keywords occurs,
\* whatever the case of its letters, in the message, the code or the name of
\* the error, and UNKNOWN when no keyword occurs in any of them.
CexC24 ==
    (ehLast.op = "handleError" /\ ehLast.errorInfo # NoErrorInfo) =>
        ehLast.category = FirstCategory(ehLast.errorInfo)

-----------------------------------------------------------------------------
(* Breaker state claims *)

\* C25: a breaker whose stored state is OPEN has its deadline ahead,
\* now < nextAttempt, in every reachable state.
CexC25 ==
    \A category \in DOMAIN circuitBreakers :
        circuitBreakers[category].state = "OPEN" =>
            now < circuitBreakers[category].nextAttempt

\* the step is a handleError call that finds the deadline of the OPEN
\* breaker of its category passed: its check makes the breaker HALF_OPEN
\* before its recovery outcome is recorded
ChecksElapsed(category) ==
    /\ ehLast'.op = "handleError" /\ ehLast'.step \in {"call", "await"}
    /\ ehLast'.category = category
    /\ CircuitOf(circuitBreakers, category).state = "OPEN"
    /\ now >= CircuitOf(circuitBreakers, category).nextAttempt

C26Step(category) ==
    LET circuit == CircuitOf(circuitBreakers, category)
        after == CircuitOf(circuitBreakers', category)
        found == IF ChecksElapsed(category) THEN "HALF_OPEN" ELSE circuit.state
    IN  /\ after.state # circuit.state =>
              \/ <<circuit.state, after.state>> \in
                    {<<"CLOSED", "OPEN">>, <<"OPEN", "HALF_OPEN">>,
                     <<"HALF_OPEN", "CLOSED">>, <<"HALF_OPEN", "OPEN">>}
              \/ ChecksElapsed(category) /\ after.state = "CLOSED"
        /\ (after.state = "CLOSED" /\ circuit.state # "CLOSED") =>
              /\ found = "HALF_OPEN"
              /\ Recorded(category, FALSE)
              /\ after.failures = 0
        /\ (Recorded(category, FALSE) /\ found # "HALF_OPEN") => after = circuit

\* C26: the state of a breaker changes only from CLOSED to OPEN, from OPEN
\* to HALF_OPEN, from HALF_OPEN to CLOSED and from HALF_OPEN to OPEN; it
\* becomes CLOSED only by a success recorded while it is HALF_OPEN, with
\* failures set to 0, and a success recorded in another state leaves the
\* breaker as it is.
ThmC26 == [][\A category \in EHCategories : C26Step(category)]_vars

\* C26 witness: a success has just been recorded on an OPEN breaker whose
\* deadline has passed, and the breaker is still OPEN
WitC26 ==
    /\ ehLast.op = "updateCircuitBreaker" /\ ~ehLast.isFailure
    /\ ehLast.category \in DOMAIN circuitBreakers
    /\ circuitBreakers[ehLast.category].state = "OPEN"
    /\ now > circuitBreakers[ehLast.category].nextAttempt

-----------------------------------------------------------------------------
(* Trial call claim *)

\* the task whose handleError call returns in this step after its sleep; it
\* started at wakeAt - delay, and when that is no later than the instant the
\* breaker opened (nextAttempt - timeout) it passed its check before the
\* breaker opened
Resumed(task) ==
    /\ tasks[task].pc = "sleeping"
    /\ tasks'[task].pc = "idle"

C27Step(category) ==
    LET circuit == CircuitOf(circuitBreakers, category)
        after == CircuitOf(circuitBreakers', category)
    IN  /\ (/\ ehLast'.op = "handleError" /\ ehLast'.step \in {"call", "await"}
            /\ ehLast'.category = category
            /\ circuit.state = "HALF_OPEN") =>
              ehLast'.circuitBreakerOpen
        /\ \A task \in Tasks :
              (/\ Resumed(task)
               /\ tasks[task].category = category
               /\ circuit.state = "HALF_OPEN"
               /\ tasks[task].wakeAt - tasks[task].recovery.delay
                     <= circuit.nextAttempt - circuitBreakerTimeout) =>
                 after.state # "CLOSED"

\* C27: a handleError call that finds the breaker of its category HALF_OPEN,
\* that is while the trial call that made it HALF_OPEN has not recorded its
\* outcome, does not pass the breaker check; and the outcome of a call that
\* started before the breaker opened does not close it.
CexC27 == [][\A category \in EHCategories : C27Step(category)]_vars

-----------------------------------------------------------------------------
(* Bounded recovery claim *)

\* C28: handleError for a recoverable error whose retryCount has reached
\* retryAttempts, when the breaker lets it through, returns
\* recovery.success = false and records a failure for the breaker of the
\* error's category, whatever the category is.
CexC28 ==
    (/\ Returned
     /\ ehLast.attempted
     /\ ehLast.errorInfo.isRecoverable
     /\ ehLast.errorInfo.retryCount >= retryAttempts) =>
        /\ ~ehLast.success
        /\ ehLast.isFailure

-----------------------------------------------------------------------------
(* Failure counter claims *)

C29Step(category) ==
    LET circuit == CircuitOf(circuitBreakers, category)
        after == CircuitOf(circuitBreakers', category)
    IN  /\ (Recorded(category, FALSE) /\ circuit.state = "CLOSED") =>
              after = circuit
        /\ after.failures # circuit.failures =>
              \/ Recorded(category, TRUE) /\ after.failures = circuit.failures + 1
              \/ /\ Recorded(category, FALSE)
                 /\ circuit.state # "CLOSED" /\ after.state = "CLOSED"
                 /\ after.failures = 0
        /\ (Recorded(category, TRUE) /\ circuit.state = "CLOSED") =>
              after.state = IF circuit.failures + 1 >= circuitBreakerThreshold
                              THEN "OPEN" ELSE "CLOSED"

\* C29: a success recorded while a breaker is CLOSED leaves its failure
\* counter as it is; the counter changes only by one on each recorded
\* failure and to 0 when the breaker closes, so it counts the failures
\* recorded since the breaker last closed, and the failure that brings it to
\* the threshold opens the breaker whatever successes came between.
ThmC29 == [][\A category \in EHCategories : C29Step(category)]_vars

\* C29 witness: a success has just been recorded on a CLOSED breaker that is
\* one failure short of the threshold, and the counter still stands there
WitC29 ==
    /\ ehLast.op = "updateCircuitBreaker" /\ ~ehLast.isFailure
    /\ ehLast.category \in DOMAIN circuitBreakers
    /\ circuitBreakers[ehLast.category].state = "CLOSED"
    /\ circuitBreakers[ehLast.category].failures = circuitBreakerThreshold - 1

\* the counter of every breaker agrees with its state
CounterAgrees ==
    \A category \in DOMAIN circuitBreakers :
        LET circuit == circuitBreakers[category]
        IN  /\ circuit.state \in {"CLOSED", "OPEN", "HALF_OPEN"}
            /\ circuit.state = "CLOSED" =>
                  circuit.failures < circuitBreakerThreshold
            /\ circuit.state \in {"OPEN", "HALF_OPEN"} =>
                  circuit.failures >= circuitBreakerThreshold

C30Step(category) ==
    LET circuit == CircuitOf(circuitBreakers, category)
        after == CircuitOf(circuitBreakers', category)
    IN  /\ (/\ Recorded(category, TRUE)
             /\ (circuit.state = "HALF_OPEN" \/ ChecksElapsed(category))) =>
              /\ after.state = "OPEN"
              /\ after.nextAttempt = now + circuitBreakerTimeout
        /\ (ehLast'.op # "none" /\ ehLast'.category # category) =>
              after = circuit

\* C30: in every reachable state a CLOSED breaker has fewer failures than
\* the threshold and an OPEN or HALF_OPEN breaker has at least the
\* threshold; a failure recorded while a breaker is HALF_OPEN makes it OPEN
\* in that step with nextAttempt the breaker timeout after now; and a call
\* made for one category leaves the breaker of every other category as it is.
ThmC30 ==
    /\ []CounterAgrees
    /\ [][\A category \in EHCategories : C30Step(category)]_vars

\* C30 witness: a failure has just re-opened the HALF_OPEN breaker of one
\* category after its first timeout, while the breaker of the other
\* category is CLOSED with failures of its own
WitC30 ==
    /\ ehLast.op = "updateCircuitBreaker" /\ ehLast.isFailure
    /\ ehLast.category = "NETWORK"
    /\ DOMAIN circuitBreakers = EHCategories
    /\ circuitBreakers["NETWORK"].state = "OPEN"
    /\ circuitBreakers["NETWORK"].failures = circuitBreakerThreshold + 1
    /\ circuitBreakers["NETWORK"].nextAttempt = now + circuitBreakerTimeout
    /\ now >= circuitBreakerTimeout
    /\ circuitBreakers["UNKNOWN"].state = "CLOSED"
    /\ circuitBreakers["UNKNOWN"].failures > 0

-----------------------------------------------------------------------------
(* Session validation claims *)

C31Step(sessionId) ==
    LET mismatch(call) == /\ call.op = "validateSession"
                          /\ call.sessionId = sessionId
                          /\ call.reason = "Session mismatch"
    IN  /\ mismatch(smLast') => sessionId \notin DOMAIN activeSessions'
        /\ mismatch(smLast) =>
              \A userId \in Users : Validated(sessionId, userId) => ~smLast'.isValid

\* C31: a validateSession call that finds the session registered for another
\* user removes the session from the registry, and a validateSession call
\* made next on the same id, by its owner too, does not succeed.
CexC31 == [][\A sessionId \in SessionIds : C31Step(sessionId)]_vars

-----------------------------------------------------------------------------
(* Limited request claim *)

C35Step ==
    (rlLast'.op = "isRateLimited" /\ rlLast'.limited) =>
        \A k \in Keys :
            /\ store'[k] = store[k]
            /\ ResetTime(k[1], k[2], now)' = ResetTime(k[1], k[2], now)

\* C35: an isRateLimited call that returns true leaves the stored requests
\* of its key as they were, so the time until the key is admitted again is
\* what it was before the call, and leaves the stored requests of every
\* other key as they were.
ThmC35 == [][C35Step]_vars

\* C35 witness: a request of u1 has just been refused at a later instant
\* than the last one admitted, with its window still full and the window of
\* u2 holding requests too
WitC35 ==
    LET k == <<"u1", "commands">>
    IN  /\ rlLast.op = "isRateLimited" /\ rlLast.limited
        /\ rlLast.userId = "u1" /\ rlLast.type = "commands"
        /\ Len(store[k]) = commandsPerMinute
        /\ now > store[k][Len(store[k])]
        /\ store[<<"u2", "messages">>] # <<>>

-----------------------------------------------------------------------------
(* Session validity claim *)

\* C32: validateSession returns isValid true only for a session that is
\* active, whose age now - createdAt is less than sessionTimeout, and whose
\* userId is the one the caller gave; a session exactly sessionTimeout old
\* is not reported valid.
CexC32 ==
    (smLast.op = "validateSession" /\ smLast.isValid) =>
        /\ smLast.session.isActive
        /\ now - smLast.session.createdAt < sessionTimeout
        /\ smLast.userId = smLast.session.userId

-----------------------------------------------------------------------------
(* Validation failure claim *)

C33Step(sessionId, userId) ==
    Validated(sessionId, userId) =>
        /\ sessionId >= nextSession => smLast'.reason = "Session not found"
        /\ sessionId \in ExpiredIds => smLast'.reason = "Session inactive"
        /\ (/\ sessionId \in DOMAIN activeSessions
            /\ activeSessions[sessionId].userId = userId
            /\ activeSessions[sessionId].isActive
            /\ now - activeSessions[sessionId].createdAt > sessionTimeout) =>
              smLast'.reason = "Session expired"

\* C33: validateSession fails with 'Session not found' on an id never given
\* out, with 'Session inactive' on the id of a session expired before (by
\* expireSession, by a timeout or by the sweep), and with 'Session expired'
\* on a live session of the caller older than sessionTimeout.
CexC33 ==
    [][\A sessionId \in SessionIds, userId \in Users : C33Step(sessionId, userId)]_vars

-----------------------------------------------------------------------------
(* Session sweep claim *)

C34Step ==
    smLast'.op = "cleanupExpiredSessions" =>
        /\ \A sessionId \in DOMAIN activeSessions' :
              now - activeSessions'[sessionId].createdAt <= sessionTimeout
        /\ \A sessionId \in DOMAIN activeSessions :
              now - activeSessions[sessionId].createdAt <= sessionTimeout =>
                  /\ sessionId \in DOMAIN activeSessions'
                  /\ activeSessions'[sessionId] = activeSessions[sessionId]

\* C34: after each run of cleanupExpiredSessions no registered session is
\* older than sessionTimeout, and every session that was not older than
\* sessionTimeout is registered as before; and with the interval task and
\* the clock running, every registered session is eventually out of the
\* registry, whether or not it is validated again.
ThmC34 ==
    /\ [][C34Step]_vars
    /\ \A sessionId \in SessionIds :
          (sessionId \in DOMAIN activeSessions) ~> (sessionId \notin DOMAIN activeSessions)

\* C34 witness: the sweep run 1 ms after the timeout of the first session
\* has just expired it
WitC34 ==
    /\ smLast.op = "cleanupExpiredSessions"
    /\ nextSession > 1
    /\ 1 \notin DOMAIN activeSessions
    /\ \E i \in 1..Len(auditLog) :
          /\ auditLog[i].action = "SESSION_EXPIRED"
          /\ auditLog[i].timestamp = now
    /\ now = sessionTimeout + 1

-----------------------------------------------------------------------------
(* Non-recoverable error claim *)

\* C36: when handleError returns for an error whose code or name is among
\* the non-recoverable ones and the breaker let it through, it returns in
\* the step of the call, with recovery.success false, no strategy and no
\* delay, and the priority of the error info it logged is CRITICAL.
CexC36 ==
    (/\ Returned
     /\ ehLast.attempted
     /\ ~ehLast.errorInfo.isRecoverable) =>
        /\ ehLast.step = "call"
        /\ ~ehLast.success
        /\ ehLast.strategy = "none"
        /\ ehLast.delay = 0
        /\ ehLast.errorInfo.priority = CRITICAL

-----------------------------------------------------------------------------
(* Audit event shape claim *)

\* C37: every event in the audit log, whichever call put it there, has an
\* id and a severity from LOW to CRITICAL, the one getActionSeverity gives
\* for its action (LOW for an action the table does not list).
CexC37 ==
    \A i \in 1..Len(auditLog) :
        /\ auditLog[i].id # "undefined"
        /\ auditLog[i].severity \in LOW..CRITICAL
        /\ auditLog[i].severity = getActionSeverity(auditLog[i].action)

-----------------------------------------------------------------------------
(* Rapid actions claim *)

\* the events of the user with the action in the last 5 minutes
RecentActionCount(userId, action) ==
    Cardinality({i \in 1..Len(auditLog) :
                    /\ auditLog[i].userId = userId
                    /\ auditLog[i].action = action
                    /\ auditLog[i].timestamp >= now - 5 * 60 * 1000})

\* C38: analyzeSecurityThreats(p, action) returns a RAPID_ACTIONS finding,
\* of severity HIGH, exactly when the audit log holds at least 10 events of
\* p with that action from the last 5 minutes; events of other users and
\* older events do not count.
CexC38 ==
    \A userId \in Users, action \in ThreatActions :
        LET threats == analyzeSecurityThreats(auditLog, userId, action, now)
            rapid == {j \in 1..Len(threats) : threats[j].type = "RAPID_ACTIONS"}
        IN  /\ rapid # {} <=> RecentActionCount(userId, action) >= 10
            /\ \A j \in rapid : threats[j].severity = HIGH

-----------------------------------------------------------------------------
(* Block record claim *)

\* C39: every stored block record ends after it begins, blockedUntil >
\* blockedAt, whatever duration blockUser was given (none, zero, positive
\* or negative) and also when the record replaces an earlier one.
CexC39 ==
    \A userId \in DOMAIN blockedUsers :
        blockedUsers[userId].blockedUntil > blockedUsers[userId].blockedAt

-----------------------------------------------------------------------------
(* Repeated validation claim *)

\* C40: whatever validations the validator has run before, validateInput
\* gives an input the verdict it gives it on a new validator, so an input
\* holding a forbidden pattern is refused every time it is submitted.
CexC40 ==
    \A id \in DOMAIN Bodies :
        validateInput(Bodies[id], lastIndex).isValid =
            validateInput(Bodies[id], [p \in Range(forbiddenPatterns) |-> 0]).isValid

=============================================================================
